---- MODULE Spec2Model ----
(***************************************************************************)
(* State-machine model of the home-dashboard backend core:                 *)
(*   - SpotifyAuthManager / TVStateManager   (state_managers.py)           *)
(*   - SimpleCache and cached()              (cache.py)                    *)
(*   - Spotify transport commands and status (services/spotify_service.py) *)
(*   - Tizen TV remote client                (services/tv_tizen_service.py)*)
(*   - the first-generation TV wake          (api_app/.../tv_tizen_service)*)
(*   - the OAuth login/callback state store  (routers/spotify_router.py)   *)
(*   - the TV status probe                   (api_app/.../tv_tizen_service)*)
(*   - the wind compass of WeatherResponse   (models/weather.py)           *)
(*   - the readiness check                   (main.py)                     *)
(* Each subsystem has its own specification (SpecAuth, SpecCache, ...)     *)
(* over the shared variables; variables a specification does not use stay  *)
(* at their initial value.  Time is a discrete clock `now` (seconds).      *)
(***************************************************************************)
EXTENDS Integers, Sequences, FiniteSets, TLC

\* Python's None (absent token, absent cache value, no result).
None == "None"

\* ------------------------------------------------------------------------
\* Bounds of the model
\* ------------------------------------------------------------------------
\* Last clock value of the auth-manager specification.
MaxAuthTime == 120
\* Last clock value of the cache specification.
MaxCacheTime == 5

\* Clock advances explored by the auth specification (seconds).
AuthSteps == {10, 30}
\* Access tokens and lifetimes (seconds) handed to set_token.
Tokens == {"T1", "T2"}
ExpiresInSet == {30, 90, 120}
RefreshTokens == {"R1"}

\* Cache keys (those the services use), values and TTLs (seconds).
Keys == {"spotify:current_track", "weather:lat:lon"}
Values == {"v1", "v2"}
TTLSet == {1, 3}
\* The TTL each service passes with its key (short for playback status, longer
\* for weather), scaled to the clock of the cache specifications.
CallerTTL(k) == IF k = "spotify:current_track" THEN 1 ELSE 3
\* Concurrent callers of cached().
Callers == {"a", "b"}

\* Concurrent requests running music operations: those polling the playback
\* status and those issuing transport commands.
StatusProcs == {"m1"}
CommandProcs == {"m2"}
MProcs == StatusProcs \cup CommandProcs
\* Commands the provider is asked to apply in one run.
MaxCommands == 1
\* Last clock value of the music specification.
MaxMusicTime == 6
\* Lifetimes (seconds) the token endpoint grants in the music specification.
MusicExpiresIn == {4}

\* Music operations of one sequential session.
MaxOps == 2
\* Commands a session issues besides reading the status.
SessionCommands == {"play", "play_playlist"}
\* The access token a session is granted.
SessionTokens == {"T1"}
\* Refresh tokens the token endpoint may hand out in rotation.
RotatedTokens == {"R2"}

\* Authorization tokens the TV issues, and the client id it reports.
TVTokens == {"tvA", "tvB"}
TVClientId == "client-1"
\* Seconds a frame may take to arrive during the authorization wait.
RecvDelays == {0, 10}

\* Concurrent requests to the first-generation POST /wake.
AProcs == {"w1", "w2"}
\* Wake operations started in one run.
MaxWakeOps == 4

VARIABLES
    now,                \* wall clock: time.time() / datetime.now()
    access_token,       \* SpotifyAuthManager._access_token
    token_expires_at,   \* SpotifyAuthManager._token_expires_at
    refresh_token,      \* SpotifyAuthManager._refresh_token
    auth_last,          \* observation: the latest manager call and its result
    cache,              \* SimpleCache._cache: key -> CacheEntry or NoEntry
    cache_last,         \* observation: the latest cache call and its result
    c_pc,               \* cached(): position of each caller
    c_key,              \* cached(): key argument of each caller
    c_ttl,              \* cached(): ttl_seconds argument of each caller
    c_ret,              \* cached(): value returned / error raised
    c_fetches,          \* observation: fetch_func calls made by the current call
    c_lock,             \* SimpleCache._lock: the caller holding it, None if free
    g_set,              \* observation: per key, the latest set not yet cleared
    spotify_refresh_token, \* Settings.spotify_refresh_token (.env), None if unset
    up_state,           \* the provider's playback state (a version number)
    m_pc,               \* music operation of each request: position
    m_op,               \* music operation of each request: which one
    m_tok,              \* the bearer token the operation sends
    m_val,              \* the playback state the provider answered with
    m_ret,              \* result returned / exception raised
    m_detail,           \* details of the exception raised / the warning logged
    m_evicted,          \* observation: the command invalidated a live entry
    tv_token,           \* TVStateManager._tv_token
    tv_client_id,       \* TVStateManager._tv_client_id
    t_pc,               \* TV operation: position
    t_op,               \* TV operation: wake or launch_app
    t_power,            \* wake: the power state get_info reported
    t_url,              \* the token parameter of ws_url (None: no parameter)
    t_start_token,      \* observation: the stored token when the command began
    ws_state,           \* the operation's WebSocket: none, open or closed
    t_frames,           \* frames sent on the connection, in order
    t_authorized,       \* _send_key: the local flag `authorized`
    t_granted,          \* observation: a ms.channel.connect event was received
    t_elapsed,          \* _send_key: seconds spent in the authorization wait
    t_event,            \* observation: the event of the frame last received
    t_cause,            \* observation: what made the operation fail
    t_exc,              \* error_type of the TVConnectionException raised
    t_ret,              \* status message returned
    t_attempts,         \* observation: connection attempts made by the operation
    wake_failure_count, \* api_app tv_tizen_service._wake_failure_count
    a_pc,               \* api_app wake() of each request: position
    a_ws,               \* api_app wake(): the local `ws` (none, open, closed)
    a_ret,              \* api_app wake(): message returned / exception raised
    a_history,          \* observation: outcomes of the wake operations, in order
    r_hist,             \* observation: the music operations of a session, in order
    w_pc,               \* wake+play workflow: position
    w_op,               \* wake+play workflow: which one
    w_ret,              \* wake+play workflow: message returned / exception raised
    w_steps,            \* observation: the steps the workflow has called, in order
    w_cause,            \* observation: the exception of the step that failed
    mgr_set,            \* observation: which manager fields were set since cleanup
    x_last,             \* observation: the latest token exchange that was granted
    tv_last,            \* observation: the latest TVStateManager call and its result
    oauth_states,       \* spotify_router._oauth_states: state -> timestamp
    o_issued,           \* observation: states auth_login has issued so far
    o_issued_at,        \* observation: when each state was issued
    o_accepted,         \* observation: callbacks that passed the state check, per state
    o_exchanging,       \* auth_callback: states whose callback awaits the token exchange
    o_last,             \* observation: the latest OAuth request and its result
    s_pc,               \* api_app get_status() of each request: position
    s_ws,               \* api_app get_status(): its WebSocket (none, open, closed)
    s_frames,           \* frames the probe has sent, in order
    s_ret,              \* api_app get_status(): value returned / exception raised
    s_steps,            \* observation: protocol steps the probe has completed
    wind_deg,           \* WeatherResponse.wind_deg
    wind_arrow,         \* result of WeatherResponse.wind_direction_compass
    weather_up,         \* whether the weather service call succeeds at present
    h_pc,               \* readiness_check of each request: position
    h_ret,              \* readiness_check: the response and what the check did
    h_probe             \* observation: the latest probe outcome stored, and when

authVars  == <<access_token, token_expires_at, refresh_token, auth_last>>
cacheVars == <<cache, cache_last, c_pc, c_key, c_ttl, c_ret, c_fetches, c_lock, g_set>>
musicVars == <<spotify_refresh_token, up_state, m_pc, m_op, m_tok, m_val, m_ret, m_detail,
              m_evicted>>
tvStateVars == <<tv_token, tv_client_id>>
tvOpVars  == <<t_pc, t_op, t_power, t_url, t_start_token, ws_state, t_frames,
               t_authorized, t_granted, t_elapsed, t_event, t_cause, t_exc, t_ret,
               t_attempts>>
tvVars    == <<tvStateVars, tvOpVars>>
apiVars   == <<wake_failure_count, a_pc, a_ws, a_ret, a_history>>
wfVars    == <<w_pc, w_op, w_ret, w_steps, w_cause>>
auxVars   == <<mgr_set, x_last>>
obsVars   == <<r_hist, wfVars, auxVars>>
oauthVars == <<oauth_states, o_issued, o_issued_at, o_accepted, o_exchanging, o_last>>
probeVars == <<s_pc, s_ws, s_frames, s_ret, s_steps>>
windVars  == <<wind_deg, wind_arrow>>
healthVars == <<weather_up, h_pc, h_ret, h_probe>>
svcVars   == <<tv_last, oauthVars, probeVars, windVars, healthVars>>
vars      == <<now, authVars, cacheVars, musicVars, tvVars, apiVars, obsVars, svcVars>>

\* What the actions of one subsystem leave alone.
notAuth  == <<cacheVars, musicVars, tvVars, apiVars, svcVars>>
notCache == <<authVars, musicVars, tvVars, apiVars, svcVars>>
notMusic == <<tvVars, apiVars, svcVars>>
notTV    == <<now, authVars, cacheVars, musicVars, apiVars, svcVars>>
notApi   == <<now, authVars, cacheVars, musicVars, tvVars, svcVars>>
notSvc   == <<authVars, cacheVars, musicVars, tvVars, apiVars>>
notOAuth == <<notSvc, obsVars, tv_last, probeVars, windVars, healthVars>>
notProbe == <<now, notSvc, obsVars, tv_last, oauthVars, windVars, healthVars>>
notWind  == <<now, notSvc, obsVars, tv_last, oauthVars, probeVars, healthVars>>
notHealth == <<authVars, musicVars, tvVars, apiVars, obsVars, tv_last, oauthVars, probeVars,
               windVars>>
\* What the calls of TVStateManager leave alone.
notTVManager == <<now, authVars, cacheVars, musicVars, apiVars, oauthVars, probeVars,
                  windVars, healthVars, tvOpVars>>

\* ------------------------------------------------------------------------
\* SpotifyAuthManager (src/home_dashboard/state_managers.py)
\* ------------------------------------------------------------------------
\* The margin the specification asks of get_token; the second-generation
\* _get_access_token applied it ("with 60s buffer").
SafetyMargin == 60

\* get_token's test, lines 64-66: the token is returned while
\* _token_expires_at > time.time().
TokenValid(tok, exp, t) == tok # None /\ exp > t

GetTokenResult(tok, exp, t) == IF TokenValid(tok, exp, t) THEN tok ELSE None

AuthInit ==
    /\ access_token = None
    /\ token_expires_at = 0
    /\ refresh_token = None
    /\ auth_last = [op |-> "init", val |-> None]

\* set_token(token, expires_in), lines 68-77.
set_token(tok, e) ==
    /\ access_token' = tok
    /\ token_expires_at' = now + e
    /\ auth_last' = [op |-> "set_token", val |-> None]
    /\ UNCHANGED <<now, refresh_token, notAuth>>

\* get_token(), lines 57-66.
get_token ==
    /\ auth_last' = [op |-> "get_token",
                     val |-> GetTokenResult(access_token, token_expires_at, now)]
    /\ UNCHANGED <<now, access_token, token_expires_at, refresh_token, notAuth>>

\* set_refresh_token(refresh_token), lines 79-86.
set_refresh_token(r) ==
    /\ refresh_token' = r
    /\ auth_last' = [op |-> "set_refresh_token", val |-> None]
    /\ UNCHANGED <<now, access_token, token_expires_at, notAuth>>

\* get_refresh_token(), lines 88-95.
get_refresh_token ==
    /\ auth_last' = [op |-> "get_refresh_token", val |-> refresh_token]
    /\ UNCHANGED <<now, access_token, token_expires_at, refresh_token, notAuth>>

\* A cleanup that forgets the refresh token.
auth_cleanup_partial ==
    /\ access_token' = None
    /\ token_expires_at' = 0
    /\ auth_last' = [op |-> "cleanup", val |-> None]
    /\ UNCHANGED <<now, refresh_token, notAuth>>

\* cleanup(), lines 49-55.
auth_cleanup ==
    /\ access_token' = None
    /\ token_expires_at' = 0
    /\ refresh_token' = None
    /\ auth_last' = [op |-> "cleanup", val |-> None]
    /\ UNCHANGED <<now, notAuth>>

\* The clock advances between calls.
AuthTick(d) ==
    /\ now + d <= MaxAuthTime
    /\ now' = now + d
    /\ auth_last' = [op |-> "tick", val |-> None]
    /\ UNCHANGED <<access_token, token_expires_at, refresh_token, notAuth>>

\* ------------------------------------------------------------------------
\* SimpleCache and cached() (src/home_dashboard/cache.py)
\* ------------------------------------------------------------------------
\* A key that is not in the dict.
NoEntry == [present |-> FALSE, value |-> None, expires_at |-> 0]
\* CacheEntry(value, expires_at), lines 18-20.
CacheEntry(v, e) == [present |-> TRUE, value |-> v, expires_at |-> e]
\* No set observed for a key (or cleared since).
NoSet == [value |-> None, at |-> 0, ttl |-> 0]
\* What a caller of cached() receives when fetch_func raised.
FetchError == "FetchError"

\* A late expiry test: an entry read exactly at expires_at would still be live.
is_expired_late(entry, t) == t > entry.expires_at

\* CacheEntry.is_expired(), lines 22-24.
is_expired(entry, t) == t >= entry.expires_at

\* SimpleCache.get, lines 46-69: the value returned ...
CacheGetValue(c, k, t) ==
    IF c[k] # NoEntry /\ ~is_expired(c[k], t) THEN c[k].value ELSE None

\* ... and the dict afterwards (an expired entry is deleted).
CacheAfterGet(c, k, t) ==
    IF c[k] # NoEntry /\ is_expired(c[k], t) THEN [c EXCEPT ![k] = NoEntry] ELSE c

\* A set that stores nothing.
CacheAfterSet_dropped(c, k, v, ttl, t) == c

\* SimpleCache.set, lines 79-81.
CacheAfterSet(c, k, v, ttl, t) ==
    [c EXCEPT ![k] = CacheEntry(v, t + ttl)]

\* SimpleCache.clear(key), lines 97-100.
CacheAfterClear(c, k) == [c EXCEPT ![k] = NoEntry]

\* SimpleCache.cleanup_expired, lines 119-122.
CacheAfterCleanup(c, t) ==
    [k \in DOMAIN c |-> IF c[k] # NoEntry /\ is_expired(c[k], t) THEN NoEntry ELSE c[k]]

MusicInit ==
    /\ up_state = 0
    /\ m_pc = [p \in MProcs |-> "idle"]
    /\ m_op = [p \in MProcs |-> None]
    /\ m_tok = [p \in MProcs |-> None]
    /\ m_val = [p \in MProcs |-> None]
    /\ m_ret = [p \in MProcs |-> None]
    /\ m_detail = [p \in MProcs |-> None]
    /\ m_evicted = [p \in MProcs |-> FALSE]

CacheInit ==
    /\ cache = [k \in Keys |-> NoEntry]
    /\ cache_last = [op |-> "init", key |-> None, val |-> None]
    /\ c_pc = [p \in Callers |-> "idle"]
    /\ c_key = [p \in Callers |-> None]
    /\ c_ttl = [p \in Callers |-> 0]
    /\ c_ret = [p \in Callers |-> None]
    /\ c_fetches = [p \in Callers |-> 0]
    /\ c_lock = None
    /\ g_set = [k \in Keys |-> NoSet]

callerVars == <<c_pc, c_key, c_ttl, c_ret, c_fetches, c_lock>>

\* await cache.get(key)
cache_get(k) ==
    /\ c_lock = None
    /\ cache_last' = [op |-> "get", key |-> k, val |-> CacheGetValue(cache, k, now)]
    /\ cache' = CacheAfterGet(cache, k, now)
    /\ UNCHANGED <<now, notCache, callerVars, g_set>>

\* await cache.set(key, value, ttl_seconds)
cache_set(k, v, ttl) ==
    /\ c_lock = None
    /\ cache' = CacheAfterSet(cache, k, v, ttl, now)
    /\ g_set' = [g_set EXCEPT ![k] = [value |-> v, at |-> now, ttl |-> ttl]]
    /\ cache_last' = [op |-> "set", key |-> k, val |-> None]
    /\ UNCHANGED <<now, notCache, callerVars>>

\* await cache.clear(key)
cache_clear(k) ==
    /\ c_lock = None
    /\ cache' = CacheAfterClear(cache, k)
    /\ g_set' = [g_set EXCEPT ![k] = NoSet]
    /\ cache_last' = [op |-> "clear", key |-> k, val |-> None]
    /\ UNCHANGED <<now, notCache, callerVars>>

\* await cache.clear(): key is None, the whole dict is cleared (lines 108-109).
cache_clear_all ==
    /\ c_lock = None
    /\ cache' = [k \in Keys |-> NoEntry]
    /\ g_set' = [k \in Keys |-> NoSet]
    /\ cache_last' = [op |-> "clear_all", key |-> None, val |-> None]
    /\ UNCHANGED <<now, notCache, callerVars>>

\* await cache.cleanup_expired()
cache_cleanup_expired ==
    /\ c_lock = None
    /\ cache' = CacheAfterCleanup(cache, now)
    /\ cache_last' = [op |-> "cleanup_expired", key |-> None, val |-> None]
    /\ UNCHANGED <<now, notCache, callerVars, g_set>>

\* The clock advances by one second.
CacheTick ==
    /\ now < MaxCacheTime
    /\ now' = now + 1
    /\ cache_last' = [op |-> "tick", key |-> None, val |-> None]
    /\ UNCHANGED <<notCache, cache, callerVars, g_set>>

\* A cached() that keeps the lock from its lookup until its store.
LockAfterGet_held(p) == p

\* SimpleCache.get, lines 46-69: `async with self._lock` ends when get
\* returns, so the lock is free again before cached() goes on to line 164.
LockAfterGet(p) == None

\* cached(cache, key, ttl, fetch), lines 151-164: the cache is tried first; a
\* hit returns, a miss calls fetch_func, which suspends on its upstream call.
cached_call(p, k, ttl) ==
    /\ c_pc[p] = "idle"
    /\ c_lock = None
    /\ LET v == CacheGetValue(cache, k, now) IN
         /\ cache' = CacheAfterGet(cache, k, now)
         /\ c_key' = [c_key EXCEPT ![p] = k]
         /\ c_ttl' = [c_ttl EXCEPT ![p] = ttl]
         /\ IF v # None
              THEN /\ c_pc' = [c_pc EXCEPT ![p] = "hit"]
                   /\ c_ret' = [c_ret EXCEPT ![p] = v]
                   /\ c_fetches' = [c_fetches EXCEPT ![p] = 0]
                   /\ c_lock' = None
              ELSE /\ c_pc' = [c_pc EXCEPT ![p] = "fetching"]
                   /\ c_ret' = [c_ret EXCEPT ![p] = None]
                   /\ c_fetches' = [c_fetches EXCEPT ![p] = 1]
                   /\ c_lock' = LockAfterGet(p)
    /\ cache_last' = [op |-> "cached", key |-> None, val |-> None]
    /\ UNCHANGED <<now, notCache, g_set>>

\* Lines 164-169: fetch_func returned v; it is stored and returned.
cached_fetch_return(p, v) ==
    /\ c_pc[p] = "fetching"
    /\ c_lock = None
    /\ cache' = CacheAfterSet(cache, c_key[p], v, c_ttl[p], now)
    /\ g_set' = [g_set EXCEPT ![c_key[p]] = [value |-> v, at |-> now, ttl |-> c_ttl[p]]]
    /\ c_ret' = [c_ret EXCEPT ![p] = v]
    /\ c_pc' = [c_pc EXCEPT ![p] = "stored"]
    /\ cache_last' = [op |-> "cached", key |-> None, val |-> None]
    /\ UNCHANGED <<now, notCache, c_key, c_ttl, c_fetches, c_lock>>

\* A cached() that stores the failure it got from fetch_func.
cached_fetch_raise_stored(p) ==
    /\ c_pc[p] = "fetching"
    /\ cache' = CacheAfterSet(cache, c_key[p], FetchError, c_ttl[p], now)
    /\ c_ret' = [c_ret EXCEPT ![p] = FetchError]
    /\ c_pc' = [c_pc EXCEPT ![p] = "raised"]
    /\ cache_last' = [op |-> "cached", key |-> None, val |-> None]
    /\ UNCHANGED <<now, notCache, g_set, c_key, c_ttl, c_fetches, c_lock>>

\* Line 164: fetch_func raised; the exception leaves cached() at once.
cached_fetch_raise(p) ==
    /\ c_pc[p] = "fetching"
    /\ c_ret' = [c_ret EXCEPT ![p] = FetchError]
    /\ c_pc' = [c_pc EXCEPT ![p] = "raised"]
    /\ cache_last' = [op |-> "cached", key |-> None, val |-> None]
    /\ UNCHANGED <<now, notCache, cache, g_set, c_key, c_ttl, c_fetches, c_lock>>

\* The caller has its result and may call again.
cached_done(p) ==
    /\ c_pc[p] \in {"hit", "stored", "raised"}
    /\ c_pc' = [c_pc EXCEPT ![p] = "idle"]
    /\ c_key' = [c_key EXCEPT ![p] = None]
    /\ c_ttl' = [c_ttl EXCEPT ![p] = 0]
    /\ c_ret' = [c_ret EXCEPT ![p] = None]
    /\ c_fetches' = [c_fetches EXCEPT ![p] = 0]
    /\ cache_last' = [op |-> "cached", key |-> None, val |-> None]
    /\ UNCHANGED <<now, notCache, cache, g_set, c_lock>>

\* ------------------------------------------------------------------------
\* Music client (src/home_dashboard/services/spotify_service.py)
\* ------------------------------------------------------------------------
\* Line 26.
SPOTIFY_STATUS_CACHE_TTL == 5
\* cache_key of get_current_track and of the invalidations, lines 190, 299.
TrackKey == "spotify:current_track"
\* play, pause, next_track, previous_track: lines 266-487.
Commands == {"play", "pause", "next_track", "previous_track"}
\* play_playlist (542-575), transfer_playback_to_device (578-657),
\* play_playlist_on_device (660-745).
PlaylistCommands == {"play_playlist", "transfer_playback_to_device", "play_playlist_on_device"}
\* The transfer request wake_tv_and_play sends itself, lines 525-532.
WorkflowTransfer == "wake_tv_and_play"
MusicCommands == Commands \cup PlaylistCommands \cup {WorkflowTransfer}
\* The operations that end with cache.clear("spotify:current_track"): lines
\* 298-301, 353-356, 410-413, 467-470, 637-640, 721-724.  play_playlist
\* (568) and wake_tv_and_play (532-534) return without it.
Invalidates(op) ==
    op \in Commands \cup {"transfer_playback_to_device", "play_playlist_on_device"}
\* The provider's successive playback states.
PlaybackStates == <<"s0", "s1", "s2", "s3", "s4", "s5", "s6">>
PlaybackState(n) == PlaybackStates[n + 1]

musicProcVars == <<m_pc, m_op, m_tok, m_val, m_ret, m_detail, m_evicted>>

\* A command that returns without invalidating the cached playback state.
CommandCacheEffect_skipped(c) == c

\* Lines 298-301 (play), 353-356, 410-413, 467-470: cache.clear(cache_key).
CommandCacheEffect(c) == CacheAfterClear(c, TrackKey)

\* An exception that carries no hint.
AuthUrl_missing == None

\* details={"auth_url": ...} of SpotifyNotAuthenticatedException, line 81.
AuthUrl == "/api/spotify/auth/login"

\* _get_access_token up to its first suspension, lines 65-97: the cached token
\* is used if get_token() returns one; without a configured refresh token it
\* raises; otherwise the token exchange is posted.
m_acquire(p) ==
    LET t == GetTokenResult(access_token, token_expires_at, now) IN
      IF t # None
        THEN /\ m_tok' = [m_tok EXCEPT ![p] = t]
             /\ m_pc' = [m_pc EXCEPT ![p] = "await_api"]
             /\ m_ret' = [m_ret EXCEPT ![p] = None]
             /\ m_detail' = [m_detail EXCEPT ![p] = None]
        ELSE IF spotify_refresh_token = None
        THEN /\ m_tok' = [m_tok EXCEPT ![p] = None]
             /\ m_pc' = [m_pc EXCEPT ![p] = "done"]
             /\ m_ret' = [m_ret EXCEPT ![p] = "SpotifyNotAuthenticatedException"]
             /\ m_detail' = [m_detail EXCEPT ![p] = AuthUrl]
        ELSE /\ m_tok' = [m_tok EXCEPT ![p] = None]
             /\ m_pc' = [m_pc EXCEPT ![p] = "await_token"]
             /\ m_ret' = [m_ret EXCEPT ![p] = None]
             /\ m_detail' = [m_detail EXCEPT ![p] = None]

\* get_current_track, lines 190-263 through cached(): a hit returns the cached
\* state; a miss runs fetch_current_track, which first needs a token.
get_current_track(p) ==
    /\ m_pc[p] = "idle"
    /\ m_op' = [m_op EXCEPT ![p] = "status"]
    /\ LET v == CacheGetValue(cache, TrackKey, now) IN
         /\ cache' = CacheAfterGet(cache, TrackKey, now)
         /\ IF v # None
              THEN /\ m_pc' = [m_pc EXCEPT ![p] = "done"]
                   /\ m_ret' = [m_ret EXCEPT ![p] = v]
                   /\ m_tok' = [m_tok EXCEPT ![p] = None]
                   /\ m_detail' = [m_detail EXCEPT ![p] = None]
              ELSE m_acquire(p)
    /\ UNCHANGED <<notMusic, now, authVars, spotify_refresh_token, up_state, m_val, m_evicted,
                   cache_last, callerVars, g_set>>

\* play / pause / next_track / previous_track (lines 279-285), play_playlist
\* (560-567), transfer_playback_to_device (610-617), play_playlist_on_device
\* (692-700) and the transfer of wake_tv_and_play (525-531), each up to its
\* first suspension.
command(p, op) ==
    /\ m_pc[p] = "idle"
    /\ up_state < MaxCommands
    /\ m_op' = [m_op EXCEPT ![p] = op]
    /\ m_acquire(p)
    /\ UNCHANGED <<notMusic, now, authVars, spotify_refresh_token, up_state, m_val, m_evicted,
                   cacheVars>>

\* Line 129-135: a refresh_token in the response is only reported by a warning
\* ("update SPOTIFY_REFRESH_TOKEN in .env").
RotationWarning == "spotify_new_refresh_token"

\* A refresh that stores the new token but keeps the later of the two expiry
\* times.
token_granted_split(p, tok, e, rot) ==
    /\ m_pc[p] = "await_token"
    /\ access_token' = tok
    /\ token_expires_at' = IF token_expires_at > now + e THEN token_expires_at ELSE now + e
    /\ m_tok' = [m_tok EXCEPT ![p] = tok]
    /\ m_detail' = [m_detail EXCEPT ![p] = IF rot # None THEN RotationWarning ELSE None]
    /\ m_pc' = [m_pc EXCEPT ![p] = "await_api"]
    /\ UNCHANGED <<notMusic, now, refresh_token, auth_last, spotify_refresh_token, up_state,
                   m_op, m_val, m_ret, m_evicted, cacheVars>>

\* Lines 108-137: the token endpoint answered 200 with access_token and
\* expires_in, and possibly a rotated refresh_token; the access token is
\* stored with set_token and the API request is sent.  Settings are not
\* written.
token_granted(p, tok, e, rot) ==
    /\ m_pc[p] = "await_token"
    /\ access_token' = tok
    /\ token_expires_at' = now + e
    /\ m_tok' = [m_tok EXCEPT ![p] = tok]
    /\ m_detail' = [m_detail EXCEPT ![p] = IF rot # None THEN RotationWarning ELSE None]
    /\ m_pc' = [m_pc EXCEPT ![p] = "await_api"]
    /\ UNCHANGED <<notMusic, now, refresh_token, auth_last, spotify_refresh_token, up_state,
                   m_op, m_val, m_ret, m_evicted, cacheVars>>

\* Ways the exchange fails: an error status, a transport error, a body
\* without access_token.
TokenFailures == {"http_400", "http_401", "transport", "invalid_response"}

\* An exception that drops the status code.
RefusalDetail_none(failure) == None

\* Lines 139 and 150-165: the details of SpotifyAuthException - the status
\* code of the response if the error has one, the error type otherwise.
RefusalDetail(failure) ==
    CASE failure = "http_400" -> "400"
      [] failure = "http_401" -> "401"
      [] failure = "transport" -> None
      [] failure = "invalid_response" -> "invalid_response"

\* Lines 138-165: the exchange failed; SpotifyAuthException is raised and
\* nothing is stored.
token_refused(p, failure) ==
    /\ m_pc[p] = "await_token"
    /\ m_pc' = [m_pc EXCEPT ![p] = "done"]
    /\ m_ret' = [m_ret EXCEPT ![p] = "SpotifyAuthException"]
    /\ m_detail' = [m_detail EXCEPT ![p] = RefusalDetail(failure)]
    /\ UNCHANGED <<notMusic, now, authVars, spotify_refresh_token, up_state,
                   m_op, m_tok, m_val, m_evicted, cacheVars>>

\* The provider handles the request: it answers a status request with its
\* current playback state and applies a command.
provider_handles(p) ==
    /\ m_pc[p] = "await_api"
    /\ m_pc' = [m_pc EXCEPT ![p] = "await_resp"]
    /\ IF m_op[p] = "status"
         THEN /\ m_val' = [m_val EXCEPT ![p] = PlaybackState(up_state)]
              /\ UNCHANGED up_state
         ELSE /\ up_state' = up_state + 1
              /\ UNCHANGED m_val
    /\ UNCHANGED <<notMusic, now, authVars, spotify_refresh_token, m_op, m_tok, m_ret,
                   m_detail, m_evicted, cacheVars>>

\* Lines 216-243 and cached() lines 164-169: the status response arrived; the
\* state is stored for SPOTIFY_STATUS_CACHE_TTL seconds and returned.
status_response(p) ==
    /\ m_pc[p] = "await_resp"
    /\ m_op[p] = "status"
    /\ cache' = CacheAfterSet(cache, TrackKey, m_val[p], SPOTIFY_STATUS_CACHE_TTL, now)
    /\ g_set' = [g_set EXCEPT ![TrackKey] =
                    [value |-> m_val[p], at |-> now, ttl |-> SPOTIFY_STATUS_CACHE_TTL]]
    /\ m_ret' = [m_ret EXCEPT ![p] = m_val[p]]
    /\ m_pc' = [m_pc EXCEPT ![p] = "done"]
    /\ UNCHANGED <<notMusic, now, authVars, spotify_refresh_token, up_state, m_op, m_tok, m_val,
                   m_detail, m_evicted, cache_last, callerVars>>

\* Lines 295-301 (and 353-356, 410-413, 467-470, 627-640, 710-724):
\* raise_for_status() passed; the cache entry is invalidated by the
\* operations that do so, and the command returns.
command_response(p) ==
    /\ m_pc[p] = "await_resp"
    /\ m_op[p] \in MusicCommands
    /\ cache' = IF Invalidates(m_op[p]) THEN CommandCacheEffect(cache) ELSE cache
    /\ g_set' = [k \in Keys |-> IF cache'[k].present THEN g_set[k] ELSE NoSet]
    /\ m_evicted' = [m_evicted EXCEPT ![p] =
                        /\ Invalidates(m_op[p])
                        /\ cache[TrackKey].present /\ ~is_expired(cache[TrackKey], now)]
    /\ m_ret' = [m_ret EXCEPT ![p] = "ok"]
    /\ m_pc' = [m_pc EXCEPT ![p] = "done"]
    /\ UNCHANGED <<notMusic, now, authVars, spotify_refresh_token, up_state, m_op, m_tok, m_val,
                   m_detail, cache_last, callerVars>>

\* A failure handler that invalidates the cached playback state as well.
FailureCacheEffect_cleared(c) == CacheAfterClear(c, TrackKey)

\* Lines 302-318 (and 357-373, 414-430, 471-487): the except clause logs and
\* raises; cache.clear (line 301) is inside the try, after raise_for_status(),
\* and is not reached.
FailureCacheEffect(c) == c

\* Lines 244-260, 302-318, 569-575, 641-657, 725-745: the request failed
\* (transport error, or an error status from raise_for_status());
\* SpotifyAPIException is raised.  wake_tv_and_play has no such handler: the
\* httpx error leaves its transfer as it is.
api_failed(p) ==
    /\ m_pc[p] \in {"await_api", "await_resp"}
    /\ m_ret' = [m_ret EXCEPT ![p] = IF m_op[p] = WorkflowTransfer THEN "httpx.HTTPError"
                                     ELSE "SpotifyAPIException"]
    /\ m_pc' = [m_pc EXCEPT ![p] = "done"]
    /\ cache' = FailureCacheEffect(cache)
    /\ g_set' = [k \in Keys |-> IF cache'[k].present THEN g_set[k] ELSE NoSet]
    /\ UNCHANGED <<notMusic, now, authVars, spotify_refresh_token, up_state, m_op, m_tok, m_val,
                   m_detail, m_evicted, cache_last, callerVars>>

\* The handler has returned; the request slot is free for the next request.
m_return(p) ==
    /\ m_pc[p] = "done"
    /\ m_pc' = [m_pc EXCEPT ![p] = "idle"]
    /\ m_op' = [m_op EXCEPT ![p] = None]
    /\ m_tok' = [m_tok EXCEPT ![p] = None]
    /\ m_val' = [m_val EXCEPT ![p] = None]
    /\ m_ret' = [m_ret EXCEPT ![p] = None]
    /\ m_detail' = [m_detail EXCEPT ![p] = None]
    /\ m_evicted' = [m_evicted EXCEPT ![p] = FALSE]
    /\ UNCHANGED <<notMusic, now, authVars, spotify_refresh_token, up_state, cacheVars>>

\* The clock advances by one second.
MusicTick ==
    /\ now < MaxMusicTime
    /\ now' = now + 1
    /\ UNCHANGED <<notMusic, authVars, cacheVars, musicVars>>

\* ------------------------------------------------------------------------
\* TV remote client (src/home_dashboard/services/tv_tizen_service.py) and
\* TVStateManager (src/home_dashboard/state_managers.py)
\* ------------------------------------------------------------------------
\* _send_key line 126: the authorization wait ends 30 s after the handshake.
AUTH_TIMEOUT == 30
\* Retries announced for POST /wake (routers/tv_tizen_router.py line 21:
\* "3 attempts"), i.e. max_retries + 1 = 3.
MAX_RETRIES == 2

\* Frames the client sends.
HandshakeFrame == "ms.channel.connect"
KeyFrame == "ms.remote.control"
LaunchFrame == "ms.channel.emit"
\* Events of the frames the TV sends.
GrantEvent == "ms.channel.connect"
DeniedEvent == "ms.channel.unauthorized"
OtherEvent == "ms.channel.clientConnect"
\* What an f-string makes of the un-awaited tv_manager.get_tv_token().
CoroutineObject == "<coroutine object TVStateManager.get_tv_token>"
\* Power states of get_info, and the ways it fails.
PowerStates == {"on", "standby", "unknown"}
InfoFailures == {"http_error", "network_error", "parse_error"}

TVInit ==
    /\ tv_token = None
    /\ tv_client_id = None
    /\ t_pc = "idle"
    /\ t_op = None
    /\ t_power = None
    /\ t_url = None
    /\ t_start_token = None
    /\ ws_state = "none"
    /\ t_frames = <<>>
    /\ t_authorized = FALSE
    /\ t_granted = FALSE
    /\ t_elapsed = 0
    /\ t_event = None
    /\ t_cause = None
    /\ t_exc = None
    /\ t_ret = None
    /\ t_attempts = 0

\* A client that takes the TV's refusal for the grant.
Authorizes_any(event) == event \in {GrantEvent, DeniedEvent}

\* _send_key line 137: the event that ends the wait with authorized = True.
Authorizes(event) == event = GrantEvent

\* TVStateManager.cleanup, state_managers.py lines 116-121.
tv_cleanup ==
    /\ t_pc = "idle"
    /\ tv_token' = None
    /\ tv_client_id' = None
    /\ tv_last' = [op |-> "cleanup", val |-> None]
    /\ UNCHANGED notTVManager

\* TVStateManager.get_tv_token, state_managers.py lines 123-130.
get_tv_token ==
    /\ tv_last' = [op |-> "get_tv_token", val |-> tv_token]
    /\ UNCHANGED <<notTVManager, tvStateVars>>

\* TVStateManager.set_tv_auth(token, client_id), state_managers.py lines 132-141.
set_tv_auth(token, client_id) ==
    /\ tv_token' = token
    /\ tv_client_id' = client_id
    /\ tv_last' = [op |-> "set_tv_auth", val |-> None]
    /\ UNCHANGED notTVManager

\* The operation raises TVConnectionException with this error_type.
TVRaise(error_type, cause) ==
    /\ t_pc' = "done"
    /\ t_exc' = error_type
    /\ t_cause' = cause

\* _send_key lines 87-111: the stored token is read, the URL is built with
\* &token=<token> if there is one, and the connection is requested.
SendKeyBegin ==
    /\ t_url' = tv_token
    /\ t_start_token' = tv_token
    /\ t_attempts' = t_attempts + 1
    /\ t_pc' = "connecting"

\* wake, lines 307-312: the power state is queried first.
wake_start ==
    /\ t_pc = "idle"
    /\ t_pc' = "info"
    /\ t_op' = "wake"
    /\ UNCHANGED <<notTV, tvStateVars, t_power, t_url, t_start_token, ws_state,
                   t_frames, t_authorized, t_granted, t_elapsed, t_event, t_cause,
                   t_exc, t_ret, t_attempts>>

\* A wake that presses the power key whatever the TV reports.
SendsKey_always(power) == TRUE

\* wake, lines 324-334: KEY_POWER is sent for "standby" and for any state
\* other than "on".
SendsKey(power) == power # "on"

\* wake, lines 313-334, with get_info (lines 37-55) answering a power state.
wake_info(power) ==
    /\ t_pc = "info"
    /\ t_power' = power
    /\ IF ~SendsKey(power)
         THEN /\ t_pc' = "done"
              /\ t_ret' = "TV is already on"
              /\ UNCHANGED <<t_url, t_start_token, t_attempts>>
         ELSE /\ SendKeyBegin
              /\ UNCHANGED t_ret
    /\ UNCHANGED <<notTV, tvStateVars, t_op, ws_state, t_frames, t_authorized,
                   t_granted, t_elapsed, t_event, t_cause, t_exc>>

\* get_info failed: lines 57-73 raise TVConnectionException, which wake
\* re-raises (336-337); any other exception becomes wake_error (338-345).
wake_info_failed(failure) ==
    /\ t_pc = "info"
    /\ TVRaise(IF failure = "parse_error" THEN "wake_error" ELSE failure, "get_info")
    /\ UNCHANGED <<notTV, tvStateVars, t_op, t_power, t_url, t_start_token, ws_state,
                   t_frames, t_authorized, t_granted, t_elapsed, t_event, t_ret,
                   t_attempts>>

\* launch_app, lines 229-243: tv_manager.get_tv_token() is not awaited, so
\* `token` is a coroutine object, always true, and is formatted into the URL.
launch_app_start ==
    /\ t_pc = "idle"
    /\ t_op' = "launch_app"
    /\ t_url' = CoroutineObject
    /\ t_start_token' = tv_token
    /\ t_attempts' = t_attempts + 1
    /\ t_pc' = "connecting"
    /\ UNCHANGED <<notTV, tvStateVars, t_power, ws_state, t_frames, t_authorized,
                   t_granted, t_elapsed, t_event, t_cause, t_exc, t_ret>>

\* websockets.connect succeeded (lines 104-111, 243).
connect_ok ==
    /\ t_pc = "connecting"
    /\ ws_state' = "open"
    /\ t_pc' = IF t_op = "wake" THEN "handshake" ELSE "waiting"
    /\ UNCHANGED <<notTV, tvStateVars, t_op, t_power, t_url, t_start_token, t_frames,
                   t_authorized, t_granted, t_elapsed, t_event, t_cause, t_exc, t_ret,
                   t_attempts>>

\* websockets.connect raised (closed, refused, timeout): lines 196-204, 281-289.
connect_failed ==
    /\ t_pc = "connecting"
    /\ TVRaise("websocket_error", "connect")
    /\ UNCHANGED <<notTV, tvStateVars, t_op, t_power, t_url, t_start_token, ws_state,
                   t_frames, t_authorized, t_granted, t_elapsed, t_event, t_ret,
                   t_attempts>>

\* _send_key lines 114-126: the handshake frame is sent, the wait begins.
handshake_sent ==
    /\ t_pc = "handshake"
    /\ t_frames' = Append(t_frames, HandshakeFrame)
    /\ t_elapsed' = 0
    /\ t_pc' = "waiting"
    /\ UNCHANGED <<notTV, tvStateVars, t_op, t_power, t_url, t_start_token, ws_state,
                   t_authorized, t_granted, t_event, t_cause, t_exc, t_ret, t_attempts>>

\* _send_key line 122 raised: the send is outside the try/finally of lines
\* 125-194, so only the handler of lines 196-204 runs; nothing closes the socket.
handshake_failed ==
    /\ t_pc = "handshake"
    /\ TVRaise("websocket_error", "handshake_send")
    /\ UNCHANGED <<notTV, tvStateVars, t_op, t_power, t_url, t_start_token, ws_state,
                   t_frames, t_authorized, t_granted, t_elapsed, t_event, t_ret,
                   t_attempts>>

\* _send_key lines 129-156: a frame arrived before the wait ended.  A grant
\* stores the token it carries (with the client id) and ends the loop; any
\* other event keeps the client waiting.
recv_event(event, token, delay) ==
    /\ t_pc = "waiting"
    /\ t_op = "wake"
    /\ t_elapsed + delay < AUTH_TIMEOUT
    /\ t_elapsed' = t_elapsed + delay
    /\ t_event' = event
    /\ t_granted' = (t_granted \/ event = GrantEvent)
    /\ IF Authorizes(event)
         THEN /\ t_authorized' = TRUE
              /\ t_pc' = "sending"
              /\ IF token # None
                   THEN tv_token' = token /\ tv_client_id' = TVClientId
                   ELSE UNCHANGED tvStateVars
         ELSE UNCHANGED <<t_authorized, t_pc, tvStateVars>>
    /\ UNCHANGED <<notTV, t_op, t_power, t_url, t_start_token, ws_state, t_frames,
                   t_cause, t_exc, t_ret, t_attempts>>

\* _send_key lines 158-169 and 193-204: recv timed out, the loop breaks with
\* authorized = False, the socket is closed and TVConnectionException
\* (authorization_timeout) is raised inside the outer try, whose
\* `except Exception` re-raises it as websocket_error.
recv_timeout ==
    /\ t_pc = "waiting"
    /\ t_op = "wake"
    /\ t_elapsed' = AUTH_TIMEOUT
    /\ ws_state' = "closed"
    /\ TVRaise("websocket_error", "recv_timeout")
    /\ UNCHANGED <<notTV, tvStateVars, t_op, t_power, t_url, t_start_token, t_frames,
                   t_authorized, t_granted, t_event, t_ret, t_attempts>>

\* recv or json.loads raised (connection closed, malformed frame): the finally
\* of line 193 / the async with of line 243 closes the socket.
recv_failed(cause) ==
    /\ t_pc = "waiting"
    /\ ws_state' = "closed"
    /\ TVRaise("websocket_error", cause)
    /\ UNCHANGED <<notTV, tvStateVars, t_op, t_power, t_url, t_start_token, t_frames,
                   t_authorized, t_granted, t_elapsed, t_event, t_ret, t_attempts>>

\* launch_app lines 245-253: the first frame, whatever its event, is taken as
\* the authorization response; `not token` is false, so no token is stored.
launch_recv(event) ==
    /\ t_pc = "waiting"
    /\ t_op = "launch_app"
    /\ t_event' = event
    /\ t_granted' = (event = GrantEvent)
    /\ t_pc' = "sending"
    /\ UNCHANGED <<notTV, tvStateVars, t_op, t_power, t_url, t_start_token, ws_state,
                   t_frames, t_authorized, t_elapsed, t_cause, t_exc, t_ret, t_attempts>>

\* Lines 171-194 (key press) and 255-279 (app launch): the command frame is
\* sent, the socket is closed, the operation returns.
command_sent ==
    /\ t_pc = "sending"
    /\ t_frames' = Append(t_frames, IF t_op = "wake" THEN KeyFrame ELSE LaunchFrame)
    /\ ws_state' = "closed"
    /\ t_pc' = "done"
    /\ t_ret' = IF t_op = "launch_app" THEN None
                ELSE IF t_power = "standby" THEN "TV was in standby, sent KEY_POWER"
                ELSE "TV power state unknown, sent KEY_POWER"
    /\ UNCHANGED <<notTV, tvStateVars, t_op, t_power, t_url, t_start_token,
                   t_authorized, t_granted, t_elapsed, t_event, t_cause, t_exc,
                   t_attempts>>

\* The send of the command frame raised; the socket is closed on the way out.
command_send_failed ==
    /\ t_pc = "sending"
    /\ ws_state' = "closed"
    /\ TVRaise("websocket_error", "command_send")
    /\ UNCHANGED <<notTV, tvStateVars, t_op, t_power, t_url, t_start_token, t_frames,
                   t_authorized, t_granted, t_elapsed, t_event, t_ret, t_attempts>>

\* The caller has the result; the next TV operation may begin.
tv_return ==
    /\ t_pc = "done"
    /\ t_pc' = "idle"
    /\ t_op' = None
    /\ t_power' = None
    /\ t_url' = None
    /\ t_start_token' = None
    /\ ws_state' = "none"
    /\ t_frames' = <<>>
    /\ t_authorized' = FALSE
    /\ t_granted' = FALSE
    /\ t_elapsed' = 0
    /\ t_event' = None
    /\ t_cause' = None
    /\ t_exc' = None
    /\ t_ret' = None
    /\ t_attempts' = 0
    /\ UNCHANGED <<notTV, tvStateVars>>

\* ------------------------------------------------------------------------
\* First-generation TV wake (src/api_app/api_app/services/tv_tizen_service.py)
\* ------------------------------------------------------------------------
ApiInit ==
    /\ wake_failure_count = 0
    /\ a_pc = [p \in AProcs |-> "idle"]
    /\ a_ws = [p \in AProcs |-> "none"]
    /\ a_ret = [p \in AProcs |-> None]
    /\ a_history = <<>>

\* Operations started so far: those finished and those in flight.
WakeOpsStarted == Len(a_history) + Cardinality({p \in AProcs : a_pc[p] \in
                      {"connecting", "handshake", "recv", "key"}})

\* A failure handler that counts the failure twice.
WakeFailureCounted_twice(n) == n + 2

\* Line 68: _wake_failure_count += 1.
WakeFailureCounted(n) == n + 1

\* wake(), lines 25-36: ws = None, then the connection is requested.
a_wake_start(p) ==
    /\ a_pc[p] = "idle"
    /\ WakeOpsStarted < MaxWakeOps
    /\ a_pc' = [a_pc EXCEPT ![p] = "connecting"]
    /\ a_ws' = [a_ws EXCEPT ![p] = "none"]
    /\ a_ret' = [a_ret EXCEPT ![p] = None]
    /\ UNCHANGED <<notApi, wake_failure_count, a_history>>

\* Lines 32-62: connect, send the handshake, receive the response; each step
\* suspends and then succeeds.
a_wake_step(p) ==
    /\ a_pc[p] \in {"connecting", "handshake", "recv"}
    /\ a_pc' = [a_pc EXCEPT ![p] = CASE a_pc[p] = "connecting" -> "handshake"
                                      [] a_pc[p] = "handshake" -> "recv"
                                      [] a_pc[p] = "recv" -> "key"]
    /\ a_ws' = [a_ws EXCEPT ![p] = "open"]
    /\ UNCHANGED <<notApi, wake_failure_count, a_ret, a_history>>

\* Lines 62-65: KEY_POWER was sent; the counter is reset and the message is
\* returned through the finally clause, which suspends in ws.close().
a_wake_sent(p) ==
    /\ a_pc[p] = "key"
    /\ wake_failure_count' = 0
    /\ a_ret' = [a_ret EXCEPT ![p] = "KEY_POWER sent to TV"]
    /\ a_history' = Append(a_history, "ok")
    /\ a_pc' = [a_pc EXCEPT ![p] = "closing"]
    /\ UNCHANGED <<notApi, a_ws>>

\* Lines 67-75: any step raised; the failure is counted and re-raised through
\* the finally clause (ws.close() only if the connection had been made).
a_wake_failed(p) ==
    /\ a_pc[p] \in {"connecting", "handshake", "recv", "key"}
    /\ wake_failure_count' = WakeFailureCounted(wake_failure_count)
    /\ a_ret' = [a_ret EXCEPT ![p] = "Exception: Tizen wake error"]
    /\ a_history' = Append(a_history, "fail")
    /\ a_pc' = [a_pc EXCEPT ![p] = "closing"]
    /\ UNCHANGED <<notApi, a_ws>>

\* Lines 76-79: finally - the WebSocket, if any, is closed; wake() is left.
a_wake_closed(p) ==
    /\ a_pc[p] = "closing"
    /\ a_ws' = [a_ws EXCEPT ![p] = IF a_ws[p] = "open" THEN "closed" ELSE a_ws[p]]
    /\ a_pc' = [a_pc EXCEPT ![p] = "idle"]
    /\ UNCHANGED <<notApi, wake_failure_count, a_ret, a_history>>

\* ------------------------------------------------------------------------
\* Observation of sessions and workflows
\* ------------------------------------------------------------------------
\* No manager field has been set since construction or cleanup.
\* `cleaned` collects the fields a cleanup has cleared after they had been set.
NothingSet == [token |-> FALSE, refresh |-> FALSE, tv |-> FALSE, cleaned |-> {}]

\* No token exchange has been granted.
NoGrant == [proc |-> None, tok |-> None, expires_at |-> 0, pending |-> {}, raced |-> FALSE]

ObsInit ==
    /\ r_hist = <<>>
    /\ w_pc = "idle"
    /\ w_op = None
    /\ w_ret = None
    /\ w_steps = <<>>
    /\ w_cause = None
    /\ mgr_set = NothingSet
    /\ x_last = NoGrant

\* The record of a music operation that begins now, the n-th of the session,
\* `gap` seconds after the one before it ended.
NewOp(op, n, gap) ==
    [op |-> op, n |-> n, gap |-> gap, token_reqs |-> 0, api_reqs |-> 0, cred |-> None,
     rotated |-> None, failure |-> None, ret |-> None, detail |-> None, done_at |-> 0]

\* The session's record keeps its latest two operations; the older one no
\* longer needs the time it ended at.
Begun(h, op) ==
    IF h = <<>> THEN <<NewOp(op, 1, 0)>>
    ELSE LET last == h[Len(h)] IN
           <<[last EXCEPT !.done_at = 0], NewOp(op, last.n + 1, now - last.done_at)>>

\* Operations the session has begun.
OpsBegun == IF r_hist = <<>> THEN 0 ELSE r_hist[Len(r_hist)].n

\* The session record after a step of request p: the latest operation's
\* record counts the token-exchange request (POST /api/token, line 92) and the
\* player request (lines 202, 281, 562) the step sent, with the credential
\* the exchange carried, and takes the outcome when the operation ends.
Logged(h, p) ==
    LET i == Len(h)
        exchange == m_pc'[p] = "await_token" /\ m_pc[p] # "await_token"
        request == m_pc'[p] = "await_api" /\ m_pc[p] # "await_api"
        ended == m_pc'[p] = "done"
    IN  [h EXCEPT ![i] = [@ EXCEPT
            !.token_reqs = IF exchange THEN @ + 1 ELSE @,
            !.cred = IF exchange THEN spotify_refresh_token ELSE @,
            !.api_reqs = IF request THEN @ + 1 ELSE @,
            !.ret = IF ended THEN m_ret'[p] ELSE @,
            !.detail = IF ended THEN m_detail'[p] ELSE @,
            !.done_at = IF ended THEN now ELSE @]]

\* A session runs one operation at a time.
SessionIdle == \A q \in MProcs : m_pc[q] = "idle"

SessionBegin(p, op) ==
    /\ SessionIdle
    /\ OpsBegun < MaxOps
    /\ r_hist' = Logged(Begun(r_hist, op), p)
    /\ UNCHANGED <<wfVars, auxVars>>

SessionStep(p) ==
    /\ r_hist' = Logged(r_hist, p)
    /\ UNCHANGED <<wfVars, auxVars>>

SessionGrant(p, rot) ==
    /\ r_hist' = [Logged(r_hist, p) EXCEPT ![Len(r_hist)].rotated = rot]
    /\ UNCHANGED <<wfVars, auxVars>>

SessionRefusal(p, failure) ==
    /\ r_hist' = [Logged(r_hist, p) EXCEPT ![Len(r_hist)].failure = failure]
    /\ UNCHANGED <<wfVars, auxVars>>

\* ------------------------------------------------------------------------
\* Wake+play workflows (src/home_dashboard/services/spotify_service.py)
\* ------------------------------------------------------------------------
\* wake_tv_and_play (490-539) is named by WorkflowTransfer;
\* wake_tv_launch_spotify_and_play_playlist (748-840):
LaunchWorkflow == "wake_tv_launch_spotify_and_play_playlist"
Workflows == {WorkflowTransfer, LaunchWorkflow}

\* Line 534.
TransferredMessage == "TV woken and playback transferred"

\* Line 795: the module does not import asyncio (its imports are lines 3-18),
\* so `await asyncio.sleep(2)` raises NameError once wake has returned; lines
\* 797-830 (launch the app, settle, play the playlist, return the message) are
\* never reached.
SettleDelayError == "NameError"

\* A workflow that surfaces every failure as the generic SpotifyException.
Surfaced_generic(op, exc) == "SpotifyException"

\* The exception the caller receives for a step that raised exc:
\* wake_tv_and_play catches Exception and raises SpotifyException("Failed to
\* wake TV and play: ...") from it (535-539); the launch workflow logs and
\* re-raises (832-840).
Surfaced(op, exc) == IF op = WorkflowTransfer THEN "SpotifyException" ELSE exc

\* A workflow that goes on to the transfer after a failed wake.
AfterWakeRaised_continue(op) == IF op = WorkflowTransfer THEN "transfer" ELSE "done"

\* Lines 520-522 and 535, 791-794 and 832: wake is awaited inside the try; when
\* it raises, control goes to the except clause and the function ends.
AfterWakeRaised(op) == "done"

\* Lines 517-522, 780-794: the workflow calls tv_service.wake first.
wf_call(op) ==
    /\ w_pc = "idle"
    /\ SessionIdle
    /\ up_state < MaxCommands
    /\ wake_start
    /\ w_pc' = "wake"
    /\ w_op' = op
    /\ w_ret' = None
    /\ w_cause' = None
    /\ w_steps' = <<"wake">>
    /\ UNCHANGED <<r_hist, auxVars>>

\* wake raised TVConnectionException.
wf_wake_raised ==
    /\ w_pc = "wake"
    /\ t_pc = "done"
    /\ t_exc # None
    /\ tv_return
    /\ w_steps' = Append(w_steps, "wake_failed")
    /\ w_pc' = AfterWakeRaised(w_op)
    /\ IF AfterWakeRaised(w_op) = "done"
         THEN /\ w_cause' = "TVConnectionException"
              /\ w_ret' = Surfaced(w_op, "TVConnectionException")
         ELSE UNCHANGED <<w_cause, w_ret>>
    /\ UNCHANGED <<w_op, r_hist, auxVars>>

\* wake returned its status message.  wake_tv_and_play goes on to the
\* transfer (524-525); the launch workflow reaches line 795.
wf_wake_returned ==
    /\ w_pc = "wake"
    /\ t_pc = "done"
    /\ t_exc = None
    /\ tv_return
    /\ w_steps' = Append(w_steps, "wake_ok")
    /\ IF w_op = WorkflowTransfer
         THEN /\ w_pc' = "transfer"
              /\ UNCHANGED <<w_cause, w_ret>>
         ELSE /\ w_pc' = "done"
              /\ w_cause' = SettleDelayError
              /\ w_ret' = Surfaced(w_op, SettleDelayError)
    /\ UNCHANGED <<w_op, r_hist, auxVars>>

\* wake_tv_and_play lines 525-531: the token is obtained and the transfer to
\* settings.tv_spotify_device_id is requested.
wf_transfer(p) ==
    /\ w_pc = "transfer"
    /\ command(p, WorkflowTransfer)
    /\ w_pc' = "transferring"
    /\ w_steps' = Append(w_steps, "transfer")
    /\ UNCHANGED <<w_op, w_ret, w_cause, r_hist, auxVars>>

\* wake_tv_and_play lines 532-539: raise_for_status() passed and the message
\* is returned, or the token or the request failed and SpotifyException is
\* raised.
wf_transfer_done(p) ==
    /\ w_pc = "transferring"
    /\ m_pc[p] = "done"
    /\ m_op[p] = WorkflowTransfer
    /\ m_return(p)
    /\ w_pc' = "done"
    /\ IF m_ret[p] = "ok"
         THEN /\ w_ret' = TransferredMessage
              /\ UNCHANGED w_cause
         ELSE /\ w_ret' = Surfaced(w_op, m_ret[p])
              /\ w_cause' = m_ret[p]
    /\ UNCHANGED <<w_op, w_steps, r_hist, auxVars>>

\* The caller has the workflow's result.
wf_return ==
    /\ w_pc = "done"
    /\ w_pc' = "idle"
    /\ w_op' = None
    /\ w_ret' = None
    /\ w_cause' = None
    /\ w_steps' = <<>>
    /\ UNCHANGED <<now, authVars, cacheVars, musicVars, tvVars, apiVars, svcVars, r_hist, auxVars>>

\* ------------------------------------------------------------------------
\* OAuth login flow (src/home_dashboard/routers/spotify_router.py)
\* ------------------------------------------------------------------------
\* Line 35.
OAUTH_STATE_TTL_SECONDS == 600
\* Logins started in one run; each gets a state of its own
\* (secrets.token_urlsafe(32), line 414).
MaxLogins == 2
StateIds == 1..MaxLogins
\* A callback without a state parameter, and one with a state nobody issued.
NoState == 0
ForgedState == MaxLogins + 1
\* A state that is not a key of _oauth_states.
NotPending == -1
\* Last clock value of the OAuth specification, and the clock advances
\* explored (seconds).
MaxOAuthTime == 903
OAuthSteps == {299, 300, 301}

\* detail of the HTTPException(400) of lines 443, 447, 454.
AuthFailed == "Spotify auth failed"
InvalidState == "Invalid state parameter"
NoCode == "No authorization code received"

OAuthInit ==
    /\ oauth_states = [s \in StateIds |-> NotPending]
    /\ o_issued = 0
    /\ o_issued_at = [s \in StateIds |-> 0]
    /\ o_accepted = [s \in StateIds |-> 0]
    /\ o_exchanging = {}
    /\ o_last = [op |-> "init", state |-> NoState, error |-> FALSE, age |-> 0,
                 issued |-> FALSE, prior |-> 0, result |-> None, exchange |-> FALSE]

\* ------------------------------------------------------------------------
\* First-generation TV status probe (src/api_app/api_app/services/tv_tizen_service.py)
\* ------------------------------------------------------------------------
\* Concurrent requests to GET /status.
Probers == {"s1", "s2", "s3"}
\* Exceptions a step of the probe may raise: those of the connection
\* (refused, closed, timed out) and any other Exception.
ProbeErrors == {"connection", "unexpected"}

ProbeInit ==
    /\ s_pc = [p \in Probers |-> "idle"]
    /\ s_ws = [p \in Probers |-> "none"]
    /\ s_frames = [p \in Probers |-> <<>>]
    /\ s_ret = [p \in Probers |-> None]
    /\ s_steps = [p \in Probers |-> 0]

\* get_status(), lines 92-101: the connection is requested.
s_probe_start(p) ==
    /\ s_pc[p] = "idle"
    /\ s_pc' = [s_pc EXCEPT ![p] = "connecting"]
    /\ s_ws' = [s_ws EXCEPT ![p] = "none"]
    /\ s_frames' = [s_frames EXCEPT ![p] = <<>>]
    /\ s_ret' = [s_ret EXCEPT ![p] = None]
    /\ s_steps' = [s_steps EXCEPT ![p] = 0]
    /\ UNCHANGED notProbe

\* Lines 97-101: websockets.connect succeeded.
s_connected(p) ==
    /\ s_pc[p] = "connecting"
    /\ s_pc' = [s_pc EXCEPT ![p] = "handshake"]
    /\ s_ws' = [s_ws EXCEPT ![p] = "open"]
    /\ s_steps' = [s_steps EXCEPT ![p] = 1]
    /\ UNCHANGED <<notProbe, s_frames, s_ret>>

\* Lines 102-110: the handshake frame was sent.
s_handshake_sent(p) ==
    /\ s_pc[p] = "handshake"
    /\ s_pc' = [s_pc EXCEPT ![p] = "recv"]
    /\ s_frames' = [s_frames EXCEPT ![p] = Append(@, HandshakeFrame)]
    /\ s_steps' = [s_steps EXCEPT ![p] = 2]
    /\ UNCHANGED <<notProbe, s_ws, s_ret>>

\* Lines 111-114: the response arrived; True is returned through the exit of
\* `async with`, which closes the connection.
s_response(p) ==
    /\ s_pc[p] = "recv"
    /\ s_pc' = [s_pc EXCEPT ![p] = "done"]
    /\ s_steps' = [s_steps EXCEPT ![p] = 3]
    /\ s_ws' = [s_ws EXCEPT ![p] = "closed"]
    /\ s_ret' = [s_ret EXCEPT ![p] = "True"]
    /\ UNCHANGED <<notProbe, s_frames>>

\* A probe that lets exceptions other than those of the connection through.
OnProbeError_raised(error) == IF error = "unexpected" THEN "Exception" ELSE "False"

\* Lines 116-118: `except Exception` prints and returns False.
OnProbeError(error) == "False"

\* Lines 97-118: connect, send or recv raised; an open connection is closed
\* by the exit of `async with`.
s_failed(p, error) ==
    /\ s_pc[p] \in {"connecting", "handshake", "recv"}
    /\ s_pc' = [s_pc EXCEPT ![p] = "done"]
    /\ s_ws' = [s_ws EXCEPT ![p] = IF @ = "open" THEN "closed" ELSE @]
    /\ s_ret' = [s_ret EXCEPT ![p] = OnProbeError(error)]
    /\ UNCHANGED <<notProbe, s_frames, s_steps>>

\* The caller has the probe's answer.
s_return(p) ==
    /\ s_pc[p] = "done"
    /\ s_pc' = [s_pc EXCEPT ![p] = "idle"]
    /\ UNCHANGED <<notProbe, s_ws, s_frames, s_ret, s_steps>>

\* ------------------------------------------------------------------------
\* Weather model (src/home_dashboard/models/weather.py)
\* ------------------------------------------------------------------------
\* Largest wind direction the provider reports (degrees).
MaxWindDeg == 360

\* Line 78, the list `directions`, index 0 first.  The arrows are named by
\* where they point: U+2193 down, U+2199 down-left, U+2190 left, U+2196
\* up-left, U+2191 up, U+2197 up-right, U+2192 right, U+2198 down-right.
directions ==
    <<"down", "down-left", "left", "up-left", "up", "up-right", "right", "down-right">>

\* Python's round(n / d) for integers n >= 0, d > 0: to the nearest integer,
\* a tie to the even one.
RoundHalfEven(n, d) ==
    LET q == n \div d
        r == n % d
    IN  IF 2 * r < d THEN q
        ELSE IF 2 * r > d THEN q + 1
        ELSE IF q % 2 = 0 THEN q ELSE q + 1

\* Line 79: idx = round(self.wind_deg / 45) % 8.
CompassIndex(deg) == RoundHalfEven(deg, 45) % 8

\* Lines 76-80: WeatherResponse.wind_direction_compass.
wind_direction_compass(deg) == directions[CompassIndex(deg) + 1]

WindInit ==
    /\ wind_deg = 0
    /\ wind_arrow = None

\* The property is read from a response whose wind_deg is given.
read_wind_direction_compass ==
    /\ wind_arrow = None
    /\ wind_arrow' = wind_direction_compass(wind_deg)
    /\ UNCHANGED <<notWind, wind_deg>>

\* ------------------------------------------------------------------------
\* Readiness check (src/home_dashboard/main.py, routers/health_router.py)
\* ------------------------------------------------------------------------
\* Concurrent requests to GET /health/ready.
Checkers == {"h1", "h2"}
\* cache_key = "health:weather_check" (main.py:459) and the key of the weather
\* service (weather_service.py:36).
HealthKey == "health:weather_check"
WeatherKey == "weather:lat:lon"
HealthKeys == {HealthKey, WeatherKey}
\* await cache.set(cache_key, ..., 60) and weather_service.CACHE_TTL_SECONDS.
HEALTH_TTL_SECONDS == 60
CACHE_TTL_SECONDS == 300
\* checks["weather_api"]: "ok" or f"failed: {str(e)[:50]}".
HealthOk == "ok"
HealthFailed == "failed: Failed to fetch weather data"
WeatherSnapshot == "WeatherResponse"
\* The clock (seconds) of the readiness specification and its steps.
MaxHealthTime == 180
HealthSteps == {59, 60}
\* No probe outcome has been stored.
NoProbe == [outcome |-> None, at |-> 0, failed_at |-> -1]
\* A request that is not running.  A running request records what it was
\* answered (weather, code), whether it called the weather service (probed),
\* and what it found when it began: the outcome of the latest probe stored
\* and its age, and the time since the latest failed probe (-1: none).
NoCheck == [weather |-> None, code |-> 0, probed |-> FALSE, age |-> -1, stored |-> None,
            since_failed |-> -1]

HealthInit ==
    /\ weather_up = TRUE
    /\ h_pc = [p \in Checkers |-> "idle"]
    /\ h_ret = [p \in Checkers |-> NoCheck]
    /\ h_probe = NoProbe

\* spotify_service.is_authenticated: bool(settings.spotify_refresh_token).
is_authenticated == spotify_refresh_token # None

\* main.py:479: status_code = 200 if all_healthy else 503; all_healthy is
\* false when Spotify is not authenticated or the weather outcome is not "ok"
\* (the HTTP client is always injected).
ReadyStatusCode(outcome) == IF is_authenticated /\ outcome = HealthOk THEN 200 ELSE 503

\* A readiness check that caches only a successful probe.
HealthCacheAfterProbe_okonly(c, outcome, t) ==
    IF outcome = HealthOk THEN CacheAfterSet(c, HealthKey, outcome, HEALTH_TTL_SECONDS, t) ELSE c

\* main.py:472 and 476: await cache.set(cache_key, "ok" | error_msg, 60).
HealthCacheAfterProbe(c, outcome, t) ==
    CacheAfterSet(c, HealthKey, outcome, HEALTH_TTL_SECONDS, t)

\* What a request finds when it begins.
CheckBegun(p, weather, probed) ==
    [weather |-> weather,
     code |-> IF weather = None THEN 0 ELSE ReadyStatusCode(weather),
     probed |-> probed,
     age |-> IF h_probe.outcome = None THEN -1 ELSE now - h_probe.at,
     stored |-> h_probe.outcome,
     since_failed |-> IF h_probe.failed_at < 0 THEN -1 ELSE now - h_probe.failed_at]

ProbeStored(outcome) ==
    [outcome |-> outcome, at |-> now,
     failed_at |-> IF outcome = HealthOk THEN h_probe.failed_at ELSE now]

\* readiness_check, main.py:456-470: the cached outcome is reported if there
\* is one; otherwise weather_service.get_current_weather is called, which
\* answers from its own cache entry if that is live (cache.py:152-154) and
\* otherwise suspends on the upstream request.
h_begin(p) ==
    /\ h_pc[p] = "idle"
    /\ c_lock = None
    /\ LET hv == CacheGetValue(cache, HealthKey, now)
           c1 == CacheAfterGet(cache, HealthKey, now)
           wv == CacheGetValue(c1, WeatherKey, now)
           c2 == CacheAfterGet(c1, WeatherKey, now)
       IN  IF hv # None
             THEN /\ cache' = c1
                  /\ h_ret' = [h_ret EXCEPT ![p] = CheckBegun(p, hv, FALSE)]
                  /\ h_pc' = [h_pc EXCEPT ![p] = "done"]
                  /\ UNCHANGED h_probe
             ELSE IF wv # None
               THEN /\ cache' = HealthCacheAfterProbe(c2, HealthOk, now)
                    /\ h_ret' = [h_ret EXCEPT ![p] = CheckBegun(p, HealthOk, TRUE)]
                    /\ h_pc' = [h_pc EXCEPT ![p] = "done"]
                    /\ h_probe' = ProbeStored(HealthOk)
               ELSE /\ cache' = c2
                    /\ h_ret' = [h_ret EXCEPT ![p] = CheckBegun(p, None, TRUE)]
                    /\ h_pc' = [h_pc EXCEPT ![p] = "probing"]
                    /\ UNCHANGED h_probe
    /\ UNCHANGED <<now, notHealth, cache_last, callerVars, g_set, weather_up>>

\* The upstream answered: cached() stores the weather (cache.py:167), the
\* check reports "ok" and stores it (main.py:469-472).
h_upstream_ok(p) ==
    /\ h_pc[p] = "probing"
    /\ weather_up
    /\ c_lock = None
    /\ cache' = HealthCacheAfterProbe(
                   CacheAfterSet(cache, WeatherKey, WeatherSnapshot, CACHE_TTL_SECONDS, now),
                   HealthOk, now)
    /\ h_probe' = ProbeStored(HealthOk)
    /\ h_ret' = [h_ret EXCEPT ![p].weather = HealthOk, ![p].code = ReadyStatusCode(HealthOk)]
    /\ h_pc' = [h_pc EXCEPT ![p] = "done"]
    /\ UNCHANGED <<now, notHealth, cache_last, callerVars, g_set, weather_up>>

\* The upstream request failed: the exception passes through cached(), the
\* check reports the error message and stores it (main.py:473-477).
h_upstream_failed(p) ==
    /\ h_pc[p] = "probing"
    /\ ~weather_up
    /\ c_lock = None
    /\ cache' = HealthCacheAfterProbe(cache, HealthFailed, now)
    /\ h_probe' = ProbeStored(HealthFailed)
    /\ h_ret' = [h_ret EXCEPT ![p].weather = HealthFailed,
                              ![p].code = ReadyStatusCode(HealthFailed)]
    /\ h_pc' = [h_pc EXCEPT ![p] = "done"]
    /\ UNCHANGED <<now, notHealth, cache_last, callerVars, g_set, weather_up>>

\* main.py:482-490: the JSONResponse is returned.
h_return(p) ==
    /\ h_pc[p] = "done"
    /\ h_pc' = [h_pc EXCEPT ![p] = "idle"]
    /\ h_ret' = [h_ret EXCEPT ![p] = NoCheck]
    /\ UNCHANGED <<now, notHealth, cacheVars, weather_up, h_probe>>

\* The weather upstream goes down or recovers.
weather_flips ==
    /\ weather_up' = ~weather_up
    /\ UNCHANGED <<now, notHealth, cacheVars, h_pc, h_ret, h_probe>>

\* The clock advances by d seconds.
HealthTick(d) ==
    /\ now + d <= MaxHealthTime
    /\ now' = now + d
    /\ UNCHANGED <<notHealth, cacheVars, healthVars>>

SvcInit ==
    /\ tv_last = [op |-> "init", val |-> None]
    /\ OAuthInit
    /\ ProbeInit
    /\ WindInit
    /\ HealthInit

\* _cleanup_expired_oauth_states, lines 47-54: the states whose age exceeds the
\* TTL are removed.
StatesAfterSweep(states, t) ==
    [s \in DOMAIN states |->
        IF states[s] # NotPending /\ t - states[s] > OAUTH_STATE_TTL_SECONDS
          THEN NotPending ELSE states[s]]

\* Line 446: `state and state in _oauth_states`.
StateKnown(states, s) == s \in DOMAIN states /\ states[s] # NotPending

\* A callback that leaves the state it accepted in the map.
StatesAfterAccept_kept(states, s) == states

\* Line 450: _oauth_states.pop(state, None).
StatesAfterAccept(states, s) == [states EXCEPT ![s] = NotPending]

\* auth_login, lines 408-428: expired states are swept, a new state is stored
\* with the current time and sent along with the redirect.
auth_login ==
    /\ o_issued < MaxLogins
    /\ LET s == o_issued + 1 IN
         /\ oauth_states' = [StatesAfterSweep(oauth_states, now) EXCEPT ![s] = now]
         /\ o_issued' = s
         /\ o_issued_at' = [o_issued_at EXCEPT ![s] = now]
         /\ o_last' = [op |-> "login", state |-> s, error |-> FALSE, age |-> 0,
                       issued |-> TRUE, prior |-> 0, result |-> "redirect",
                       exchange |-> FALSE]
    /\ UNCHANGED <<now, notOAuth, o_accepted, o_exchanging>>

\* auth_callback, lines 432-467, up to the token exchange: an error parameter
\* ends the request first; then the state is looked up, and removed if it is
\* pending; a request without a code ends there; otherwise the code is posted
\* to the token endpoint.
auth_callback(error, s, code) ==
    LET known == StateKnown(oauth_states, s)
        seen == [op |-> "callback", state |-> s, error |-> error,
                 age |-> IF s \in StateIds /\ s <= o_issued THEN now - o_issued_at[s] ELSE 0,
                 issued |-> s \in StateIds /\ s <= o_issued,
                 prior |-> IF s \in StateIds THEN o_accepted[s] ELSE 0,
                 result |-> None, exchange |-> FALSE]
    IN
    /\ IF error
         THEN /\ o_last' = [seen EXCEPT !.result = AuthFailed]
              /\ UNCHANGED <<oauth_states, o_accepted, o_exchanging>>
         ELSE IF ~known
         THEN /\ o_last' = [seen EXCEPT !.result = InvalidState]
              /\ UNCHANGED <<oauth_states, o_accepted, o_exchanging>>
         ELSE /\ oauth_states' = StatesAfterAccept(oauth_states, s)
              /\ o_accepted' = [o_accepted EXCEPT ![s] = @ + 1]
              /\ IF ~code
                   THEN /\ o_last' = [seen EXCEPT !.result = NoCode]
                        /\ UNCHANGED o_exchanging
                   ELSE /\ o_last' = [seen EXCEPT !.result = "exchanging", !.exchange = TRUE]
                        /\ o_exchanging' = o_exchanging \cup {s}
    /\ UNCHANGED <<now, notOAuth, o_issued, o_issued_at>>

\* Outcomes of the token exchange, lines 468-474 and 501-681: the page that
\* confirms the saved refresh token (or shows it when saving failed),
\* HTTPException(500) "No refresh token received", or "Token exchange failed".
ExchangeOutcomes == {"saved", "shown", "no_refresh_token", "exchange_failed"}

\* The token endpoint answered the callback of state s (or the request failed).
auth_callback_exchanged(s, outcome) ==
    /\ s \in o_exchanging
    /\ o_exchanging' = o_exchanging \ {s}
    /\ o_last' = [op |-> "exchanged", state |-> s, error |-> FALSE, age |-> 0,
                  issued |-> TRUE, prior |-> o_accepted[s], result |-> outcome,
                  exchange |-> FALSE]
    /\ UNCHANGED <<now, notOAuth, oauth_states, o_issued, o_issued_at,
                   o_accepted>>

\* The clock advances between requests.
OAuthTick(d) ==
    /\ now + d <= MaxOAuthTime
    /\ now' = now + d
    /\ o_last' = [op |-> "tick", state |-> NoState, error |-> FALSE, age |-> 0,
                  issued |-> FALSE, prior |-> 0, result |-> None, exchange |-> FALSE]
    /\ UNCHANGED <<notOAuth, oauth_states, o_issued, o_issued_at,
                   o_accepted, o_exchanging>>

\* The exchange of request p was granted tok for e seconds: `pending` are the
\* requests whose own exchange is still in flight, `raced` tells that this
\* exchange was in flight when the one before it was granted.
GrantNoted(p, tok, e) ==
    /\ x_last' = [proc |-> p, tok |-> tok, expires_at |-> now + e,
                  pending |-> {q \in MProcs \ {p} : m_pc[q] = "await_token"},
                  raced |-> p \in x_last.pending]
    /\ UNCHANGED <<r_hist, wfVars, mgr_set>>

\* ------------------------------------------------------------------------
\* Lifecycle of the state managers (src/home_dashboard/state_managers.py)
\* ------------------------------------------------------------------------
\* A set call was made on the field.
Noted(field) ==
    /\ mgr_set' = [mgr_set EXCEPT ![field] = TRUE]
    /\ UNCHANGED <<r_hist, wfVars, x_last>>

\* cleanup was called on the manager owning the fields.
Cleared(fields) ==
    /\ mgr_set' = [token |-> mgr_set.token /\ "token" \notin fields,
                    refresh |-> mgr_set.refresh /\ "refresh" \notin fields,
                    tv |-> mgr_set.tv /\ "tv" \notin fields,
                    cleaned |-> mgr_set.cleaned \cup {f \in fields : mgr_set[f]}]
    /\ UNCHANGED <<r_hist, wfVars, x_last>>

\* ------------------------------------------------------------------------
\* Specifications
\* ------------------------------------------------------------------------
InitAuth ==
    /\ now = 1
    /\ AuthInit
    /\ CacheInit
    /\ MusicInit
    /\ spotify_refresh_token = None
    /\ TVInit
    /\ ApiInit
    /\ ObsInit
    /\ SvcInit

NextAuth ==
    \/ \E tok \in Tokens, e \in ExpiresInSet : set_token(tok, e) /\ UNCHANGED obsVars
    \/ get_token /\ UNCHANGED obsVars
    \/ \E r \in RefreshTokens : set_refresh_token(r) /\ UNCHANGED obsVars
    \/ get_refresh_token /\ UNCHANGED obsVars
    \/ auth_cleanup /\ UNCHANGED obsVars
    \/ \E d \in AuthSteps : AuthTick(d) /\ UNCHANGED obsVars

SpecAuth == InitAuth /\ [][NextAuth]_vars

InitCache ==
    /\ now = 0
    /\ AuthInit
    /\ CacheInit
    /\ MusicInit
    /\ spotify_refresh_token = None
    /\ TVInit
    /\ ApiInit
    /\ ObsInit
    /\ SvcInit

NextCache ==
    \/ \E k \in Keys : cache_get(k) /\ UNCHANGED obsVars
    \/ \E k \in Keys, v \in Values, ttl \in TTLSet : cache_set(k, v, ttl) /\ UNCHANGED obsVars
    \/ \E k \in Keys : cache_clear(k) /\ UNCHANGED obsVars
    \/ cache_clear_all /\ UNCHANGED obsVars
    \/ cache_cleanup_expired /\ UNCHANGED obsVars
    \/ CacheTick /\ UNCHANGED obsVars

SpecCache == InitCache /\ [][NextCache]_vars

\* Callers of cached(), interleaved at their suspension points (the fetch),
\* with invalidations by other handlers and the clock.
NextCached ==
    \/ \E p \in Callers, k \in Keys : cached_call(p, k, CallerTTL(k)) /\ UNCHANGED obsVars
    \/ \E p \in Callers, v \in Values : cached_fetch_return(p, v) /\ UNCHANGED obsVars
    \/ \E p \in Callers : cached_fetch_raise(p) /\ UNCHANGED obsVars
    \/ \E p \in Callers : cached_done(p) /\ UNCHANGED obsVars
    \/ \E k \in Keys : cache_clear(k) /\ UNCHANGED obsVars
    \/ CacheTick /\ UNCHANGED obsVars

SpecCached == InitCache /\ [][NextCached]_vars

\* Last clock value of the shared-cache specification.
MaxSharedTime == 3

\* Callers of cached() sharing the cache with handlers that call get, set and
\* clear directly, on the same and on other keys.
NextShared ==
    \/ \E p \in Callers, k \in Keys : cached_call(p, k, CallerTTL(k)) /\ UNCHANGED obsVars
    \/ \E p \in Callers, v \in Values : cached_fetch_return(p, v) /\ UNCHANGED obsVars
    \/ \E p \in Callers : cached_fetch_raise(p) /\ UNCHANGED obsVars
    \/ \E p \in Callers : cached_done(p) /\ UNCHANGED obsVars
    \/ \E k \in Keys : cache_get(k) /\ UNCHANGED obsVars
    \/ \E k \in Keys, v \in Values : cache_set(k, v, CallerTTL(k)) /\ UNCHANGED obsVars
    \/ \E k \in Keys : cache_clear(k) /\ UNCHANGED obsVars
    \/ now < MaxSharedTime /\ CacheTick /\ UNCHANGED obsVars

SpecShared == InitCache /\ [][NextShared]_vars

\* Music operations of concurrent requests, interleaved at their suspension
\* points (the token exchange and the API request), and the clock.  The
\* refresh token is configured, or not, for the whole run.
InitMusic ==
    /\ now = 1
    /\ AuthInit
    /\ CacheInit
    /\ MusicInit
    /\ spotify_refresh_token \in {None} \cup RefreshTokens
    /\ TVInit
    /\ ApiInit
    /\ ObsInit
    /\ SvcInit

NextMusic ==
    \/ \E p \in StatusProcs : get_current_track(p) /\ UNCHANGED obsVars
    \/ \E p \in CommandProcs, op \in Commands : command(p, op) /\ UNCHANGED obsVars
    \/ \E p \in MProcs, tok \in Tokens, e \in MusicExpiresIn : token_granted(p, tok, e, None) /\ UNCHANGED obsVars
    \/ \E p \in MProcs, failure \in TokenFailures : token_refused(p, failure) /\ UNCHANGED obsVars
    \/ \E p \in MProcs : provider_handles(p) /\ UNCHANGED obsVars
    \/ \E p \in MProcs : status_response(p) /\ UNCHANGED obsVars
    \/ \E p \in MProcs : command_response(p) /\ UNCHANGED obsVars
    \/ \E p \in MProcs : api_failed(p) /\ UNCHANGED obsVars
    \/ \E p \in MProcs : m_return(p) /\ UNCHANGED obsVars
    \/ MusicTick /\ UNCHANGED obsVars

SpecMusic == InitMusic /\ [][NextMusic]_vars

\* TV operations, one at a time, with every outcome of each network step.
InitTV ==
    /\ now = 0
    /\ AuthInit
    /\ CacheInit
    /\ MusicInit
    /\ spotify_refresh_token = None
    /\ TVInit
    /\ ApiInit
    /\ ObsInit
    /\ SvcInit

NextTV ==
    \/ wake_start /\ UNCHANGED obsVars
    \/ \E power \in PowerStates : wake_info(power) /\ UNCHANGED obsVars
    \/ \E failure \in InfoFailures : wake_info_failed(failure) /\ UNCHANGED obsVars
    \/ launch_app_start /\ UNCHANGED obsVars
    \/ connect_ok /\ UNCHANGED obsVars
    \/ connect_failed /\ UNCHANGED obsVars
    \/ handshake_sent /\ UNCHANGED obsVars
    \/ handshake_failed /\ UNCHANGED obsVars
    \/ \E event \in {GrantEvent, DeniedEvent, OtherEvent},
          token \in TVTokens \cup {None}, delay \in RecvDelays :
            recv_event(event, IF event = GrantEvent THEN token ELSE None, delay) /\ UNCHANGED obsVars
    \/ recv_timeout /\ UNCHANGED obsVars
    \/ \E cause \in {"connection_closed", "malformed_frame"} : recv_failed(cause) /\ UNCHANGED obsVars
    \/ \E event \in {GrantEvent, DeniedEvent, OtherEvent} : launch_recv(event) /\ UNCHANGED obsVars
    \/ command_sent /\ UNCHANGED obsVars
    \/ command_send_failed /\ UNCHANGED obsVars
    \/ tv_return /\ UNCHANGED obsVars
    \/ tv_cleanup /\ UNCHANGED obsVars

SpecTV == InitTV /\ [][NextTV]_vars

\* Concurrent requests to the first-generation wake().
InitApiWake ==
    /\ now = 0
    /\ AuthInit
    /\ CacheInit
    /\ MusicInit
    /\ spotify_refresh_token = None
    /\ TVInit
    /\ ApiInit
    /\ ObsInit
    /\ SvcInit

NextApiWake ==
    \/ \E p \in AProcs : a_wake_start(p) /\ UNCHANGED obsVars
    \/ \E p \in AProcs : a_wake_step(p) /\ UNCHANGED obsVars
    \/ \E p \in AProcs : a_wake_sent(p) /\ UNCHANGED obsVars
    \/ \E p \in AProcs : a_wake_failed(p) /\ UNCHANGED obsVars
    \/ \E p \in AProcs : a_wake_closed(p) /\ UNCHANGED obsVars

SpecApiWake == InitApiWake /\ [][NextApiWake]_vars

\* One client issuing music operations one after the other, with every
\* outcome of the token exchange and of the player request, and the clock.
InitSession ==
    /\ now = 1
    /\ AuthInit
    /\ CacheInit
    /\ MusicInit
    /\ spotify_refresh_token \in {None} \cup RefreshTokens
    /\ TVInit
    /\ ApiInit
    /\ ObsInit
    /\ SvcInit

NextSession ==
    \/ \E p \in StatusProcs : get_current_track(p) /\ SessionBegin(p, "status")
    \/ \E p \in CommandProcs, op \in SessionCommands : command(p, op) /\ SessionBegin(p, op)
    \/ \E p \in MProcs, tok \in SessionTokens, e \in MusicExpiresIn, rot \in {None} \cup RotatedTokens :
          token_granted(p, tok, e, rot) /\ SessionGrant(p, rot)
    \/ \E p \in MProcs, failure \in TokenFailures : token_refused(p, failure) /\ SessionRefusal(p, failure)
    \/ \E p \in MProcs : provider_handles(p) /\ SessionStep(p)
    \/ \E p \in MProcs : status_response(p) /\ SessionStep(p)
    \/ \E p \in MProcs : command_response(p) /\ SessionStep(p)
    \/ \E p \in MProcs : api_failed(p) /\ SessionStep(p)
    \/ \E p \in MProcs : m_return(p) /\ UNCHANGED obsVars
    \/ MusicTick /\ UNCHANGED obsVars

SpecSession == InitSession /\ [][NextSession]_vars

\* One client calling the wake+play workflows and the music operations one
\* after the other, with every outcome of each TV and network step.
InitWorkflow ==
    /\ now = 1
    /\ AuthInit
    /\ CacheInit
    /\ MusicInit
    /\ spotify_refresh_token \in {None} \cup RefreshTokens
    /\ TVInit
    /\ ApiInit
    /\ ObsInit
    /\ SvcInit

NextWorkflow ==
    \/ \E op \in Workflows : wf_call(op)
    \/ wf_wake_raised
    \/ wf_wake_returned
    \/ \E p \in CommandProcs : wf_transfer(p)
    \/ \E p \in CommandProcs : wf_transfer_done(p)
    \/ wf_return
    \/ \E power \in PowerStates : wake_info(power) /\ UNCHANGED obsVars
    \/ \E failure \in InfoFailures : wake_info_failed(failure) /\ UNCHANGED obsVars
    \/ connect_ok /\ UNCHANGED obsVars
    \/ connect_failed /\ UNCHANGED obsVars
    \/ handshake_sent /\ UNCHANGED obsVars
    \/ handshake_failed /\ UNCHANGED obsVars
    \/ \E event \in {GrantEvent, DeniedEvent, OtherEvent},
          token \in TVTokens \cup {None}, delay \in RecvDelays :
            recv_event(event, IF event = GrantEvent THEN token ELSE None, delay) /\ UNCHANGED obsVars
    \/ recv_timeout /\ UNCHANGED obsVars
    \/ \E cause \in {"connection_closed", "malformed_frame"} : recv_failed(cause) /\ UNCHANGED obsVars
    \/ command_sent /\ UNCHANGED obsVars
    \/ command_send_failed /\ UNCHANGED obsVars
    \/ \E p \in StatusProcs : w_pc = "idle" /\ SessionIdle /\ get_current_track(p) /\ UNCHANGED obsVars
    \/ \E p \in CommandProcs, op \in Commands \cup PlaylistCommands :
          w_pc = "idle" /\ SessionIdle /\ command(p, op) /\ UNCHANGED obsVars
    \/ \E p \in MProcs, tok \in SessionTokens, e \in MusicExpiresIn :
          token_granted(p, tok, e, None) /\ UNCHANGED obsVars
    \/ \E p \in MProcs, failure \in TokenFailures : token_refused(p, failure) /\ UNCHANGED obsVars
    \/ \E p \in MProcs : provider_handles(p) /\ UNCHANGED obsVars
    \/ \E p \in MProcs : status_response(p) /\ UNCHANGED obsVars
    \/ \E p \in MProcs : command_response(p) /\ UNCHANGED obsVars
    \/ \E p \in MProcs : api_failed(p) /\ UNCHANGED obsVars
    \/ \E p \in MProcs : m_op[p] # WorkflowTransfer /\ m_return(p) /\ UNCHANGED obsVars
    \/ MusicTick /\ UNCHANGED obsVars

SpecWorkflow == InitWorkflow /\ [][NextWorkflow]_vars

\* Browsers starting logins and returning to the callback, in any order and
\* at any time, with every parameter combination.
InitOAuth ==
    /\ now = 0
    /\ AuthInit
    /\ CacheInit
    /\ MusicInit
    /\ spotify_refresh_token = None
    /\ TVInit
    /\ ApiInit
    /\ ObsInit
    /\ SvcInit

NextOAuth ==
    \/ auth_login
    \/ \E error \in BOOLEAN, s \in StateIds \cup {NoState, ForgedState}, code \in BOOLEAN :
          auth_callback(error, s, code)
    \/ \E s \in StateIds, outcome \in ExchangeOutcomes : auth_callback_exchanged(s, outcome)
    \/ \E d \in OAuthSteps : OAuthTick(d)

SpecOAuth == InitOAuth /\ [][NextOAuth]_vars

\* Both managers, constructed and initialized, called in any order: set
\* calls, reads, cleanup, and the clock.
InitManagers ==
    /\ now = 1
    /\ AuthInit
    /\ CacheInit
    /\ MusicInit
    /\ spotify_refresh_token = None
    /\ TVInit
    /\ ApiInit
    /\ ObsInit
    /\ SvcInit

NextManagers ==
    \/ \E tok \in Tokens, e \in ExpiresInSet : set_token(tok, e) /\ Noted("token")
    \/ get_token /\ UNCHANGED obsVars
    \/ \E r \in RefreshTokens : set_refresh_token(r) /\ Noted("refresh")
    \/ get_refresh_token /\ UNCHANGED obsVars
    \/ auth_cleanup /\ Cleared({"token", "refresh"})
    \/ \E d \in AuthSteps : AuthTick(d) /\ UNCHANGED obsVars
    \/ \E token \in TVTokens : set_tv_auth(token, TVClientId) /\ Noted("tv")
    \/ get_tv_token /\ UNCHANGED obsVars
    \/ tv_cleanup /\ Cleared({"tv"})

SpecManagers == InitManagers /\ [][NextManagers]_vars

\* Concurrent status probes with every outcome of each network step.
InitProbe ==
    /\ now = 0
    /\ AuthInit
    /\ CacheInit
    /\ MusicInit
    /\ spotify_refresh_token = None
    /\ TVInit
    /\ ApiInit
    /\ ObsInit
    /\ SvcInit

NextProbe ==
    \/ \E p \in Probers : s_probe_start(p)
    \/ \E p \in Probers : s_connected(p)
    \/ \E p \in Probers : s_handshake_sent(p)
    \/ \E p \in Probers : s_response(p)
    \/ \E p \in Probers, error \in ProbeErrors : s_failed(p, error)
    \/ \E p \in Probers : s_return(p)

SpecProbe == InitProbe /\ [][NextProbe]_vars

\* A weather response with any wind direction, whose compass arrow is read.
InitWind ==
    /\ now = 0
    /\ AuthInit
    /\ CacheInit
    /\ MusicInit
    /\ spotify_refresh_token = None
    /\ TVInit
    /\ ApiInit
    /\ ObsInit
    /\ tv_last = [op |-> "init", val |-> None]
    /\ OAuthInit
    /\ ProbeInit
    /\ HealthInit
    /\ wind_deg \in 0..MaxWindDeg
    /\ wind_arrow = None

NextWind == read_wind_direction_compass

SpecWind == InitWind /\ [][NextWind]_vars

\* Lifetimes (seconds) the token endpoint grants in the exchange specification.
ExchangeExpiresIn == {2, 4}

\* Concurrent music operations whose token exchanges overlap: each exchange
\* is granted a token and a lifetime of its own.
InitExchange ==
    /\ now = 1
    /\ AuthInit
    /\ CacheInit
    /\ MusicInit
    /\ spotify_refresh_token \in RefreshTokens
    /\ TVInit
    /\ ApiInit
    /\ ObsInit
    /\ SvcInit

NextExchange ==
    \/ \E p \in StatusProcs : get_current_track(p) /\ UNCHANGED obsVars
    \/ \E p \in CommandProcs : command(p, "play") /\ UNCHANGED obsVars
    \/ \E p \in MProcs, tok \in Tokens, e \in ExchangeExpiresIn :
          token_granted(p, tok, e, None) /\ GrantNoted(p, tok, e)
    \/ \E p \in MProcs : token_refused(p, "http_400") /\ UNCHANGED obsVars
    \/ \E p \in MProcs : provider_handles(p) /\ UNCHANGED obsVars
    \/ \E p \in MProcs : status_response(p) /\ UNCHANGED obsVars
    \/ \E p \in MProcs : command_response(p) /\ UNCHANGED obsVars
    \/ \E p \in MProcs : api_failed(p) /\ UNCHANGED obsVars
    \/ \E p \in MProcs : m_return(p) /\ UNCHANGED obsVars
    \/ MusicTick /\ UNCHANGED obsVars

SpecExchange == InitExchange /\ [][NextExchange]_vars

\* Readiness checks of an application that has just started: the cache is
\* empty; Spotify may or may not be authenticated.
InitHealth ==
    /\ now = 1
    /\ AuthInit
    /\ cache = [k \in HealthKeys |-> NoEntry]
    /\ cache_last = [op |-> "init", key |-> None, val |-> None]
    /\ c_pc = [p \in Callers |-> "idle"]
    /\ c_key = [p \in Callers |-> None]
    /\ c_ttl = [p \in Callers |-> 0]
    /\ c_ret = [p \in Callers |-> None]
    /\ c_fetches = [p \in Callers |-> 0]
    /\ c_lock = None
    /\ g_set = [k \in Keys |-> NoSet]
    /\ MusicInit
    /\ spotify_refresh_token \in RefreshTokens \cup {None}
    /\ TVInit
    /\ ApiInit
    /\ ObsInit
    /\ SvcInit

NextHealth ==
    \/ \E p \in Checkers : h_begin(p)
    \/ \E p \in Checkers : h_upstream_ok(p)
    \/ \E p \in Checkers : h_upstream_failed(p)
    \/ \E p \in Checkers : h_return(p)
    \/ weather_flips
    \/ \E d \in HealthSteps : HealthTick(d)

SpecHealth == InitHealth /\ [][NextHealth]_vars

\* ------------------------------------------------------------------------
\* Properties
\* ------------------------------------------------------------------------

\* C1: get_token() returns the access token only while
\* now < expires_at - 60 s, and absent from then on until the next set_token.
C1_SafetyMargin ==
    auth_last.op = "get_token" =>
        auth_last.val = (IF access_token # None /\ now < token_expires_at - SafetyMargin
                           THEN access_token ELSE None)

\* C1: what the code does instead - the token is handed out until expires_at.
C1_NoMargin ==
    auth_last.op = "get_token" =>
        auth_last.val = (IF access_token # None /\ now < token_expires_at
                           THEN access_token ELSE None)

\* C1: a token is returned less than 60 s before it expires.
C1_Witness ==
    /\ auth_last.op = "get_token"
    /\ auth_last.val \in Tokens
    /\ now >= token_expires_at - SafetyMargin

\* C2: get(key) returns the stored value if and only if the key was set, not
\* cleared since, and now < expires_at (= time of the set + ttl); otherwise it
\* returns absent and the key is no longer in the map.
C2_GetIffLive ==
    cache_last.op = "get" =>
        LET k == cache_last.key
            s == g_set[k]
            live == s # NoSet /\ now < s.at + s.ttl
        IN /\ cache_last.val = (IF live THEN s.value ELSE None)
           /\ (~live => cache[k] = NoEntry)
           /\ (live => cache[k] = CacheEntry(s.value, s.at + s.ttl))

\* C2: a get found an entry at now >= expires_at, answered absent, evicted it.
C2_Witness ==
    /\ cache_last.op = "get"
    /\ g_set[cache_last.key] # NoSet
    /\ now >= g_set[cache_last.key].at + g_set[cache_last.key].ttl
    /\ cache_last.val = None
    /\ cache[cache_last.key] = NoEntry

\* C4: cached() on a hit returns the cached value without calling fetch; on a
\* miss it calls fetch exactly once and stores the result under key with the
\* given TTL; when fetch raises the error reaches the caller and the cache is
\* left as it was, so that key is still a miss.
C4_CachedContract ==
    [][\A p \in Callers :
         LET k == c_key'[p]
             live == cache[k].present /\ now < cache[k].expires_at
         IN /\ (c_pc[p] = "idle" /\ c_pc'[p] # "idle") =>
                  /\ c_pc'[p] = (IF live THEN "hit" ELSE "fetching")
                  /\ c_fetches'[p] = (IF live THEN 0 ELSE 1)
                  /\ live => (c_ret'[p] = cache[k].value /\ cache' = cache)
            /\ (c_pc[p] = "fetching" /\ c_pc'[p] = "stored") =>
                  /\ c_ret'[p] \in Values
                  /\ c_fetches'[p] = 1
                  /\ cache' = [cache EXCEPT ![k] = CacheEntry(c_ret'[p], now + c_ttl[p])]
            /\ (c_pc[p] = "fetching" /\ c_pc'[p] = "raised") =>
                  /\ c_ret'[p] = FetchError
                  /\ c_fetches'[p] = 1
                  /\ cache' = cache
    ]_vars

\* C4: a fetch has raised and nothing is stored for the key.
C4_Witness ==
    \E p \in Callers :
        /\ c_pc[p] = "raised"
        /\ c_ret[p] = FetchError
        /\ ~cache[c_key[p]].present

\* C3: when play / pause / next_track / previous_track returns successfully
\* the 'spotify:current_track' entry is absent; a command removes the entry
\* only in its last step, after the provider acknowledged it; and a
\* get_current_track that finds the entry absent is not served from the cache.
C3_InvalidateOnSuccess ==
    [][/\ \A p \in CommandProcs :
            /\ (m_pc[p] = "await_resp" /\ m_pc'[p] = "done" /\ m_ret'[p] = "ok") =>
                  ~cache'[TrackKey].present
            /\ (m_pc'[p] # m_pc[p] /\ cache[TrackKey].present /\ ~cache'[TrackKey].present) =>
                  (m_pc[p] = "await_resp" /\ m_pc'[p] = "done" /\ m_ret'[p] = "ok")
       /\ \A q \in StatusProcs :
            (m_pc[q] = "idle" /\ m_pc'[q] # "idle" /\ ~cache[TrackKey].present) =>
                  \/ m_pc'[q] \in {"await_token", "await_api"}
                  \/ m_ret'[q] = "SpotifyNotAuthenticatedException"
    ]_vars

\* C3: a command has returned successfully after invalidating a live entry
\* that get_current_track had stored.
C3_Witness ==
    \E p \in CommandProcs :
        /\ m_pc[p] = "done"
        /\ m_ret[p] = "ok"
        /\ m_evicted[p]
        /\ ~cache[TrackKey].present

\* Failures of the connection itself (closed, refused, timed out), as opposed
\* to a rejection by the TV's protocol.
ConnectionClassCauses ==
    {"connect", "handshake_send", "recv_timeout", "connection_closed", "command_send"}

HasFrame(frame) == \E i \in DOMAIN t_frames : t_frames[i] = frame

\* C5: a wake whose attempts all fail with a connection-class error has made
\* exactly max_retries + 1 connection attempts before it raises.
C5_RetryExhaustion ==
    (t_op = "wake" /\ t_pc = "done" /\ t_cause \in ConnectionClassCauses) =>
        t_attempts = MAX_RETRIES + 1

\* C7: every WebSocket a TV command opened is closed when the command returns
\* or raises.
C7_AlwaysClosed ==
    t_pc = "done" => ws_state # "open"

\* C8: in _send_key the key-command frame is on the wire only if a
\* ms.channel.connect event was received on that connection; receiving
\* ms.channel.unauthorized sends nothing and leaves the client waiting.
C8_KeyOnlyAfterGrant ==
    /\ [](t_op = "wake" /\ HasFrame(KeyFrame) => t_granted)
    /\ [][(t_op = "wake" /\ t_pc = "waiting" /\ t_pc' # "done" /\ t_event' = DeniedEvent) =>
              (t_pc' = "waiting" /\ t_frames' = t_frames)]_vars

\* C8: a key press went out after the client had waited for the grant.
C8_Witness ==
    /\ t_op = "wake"
    /\ t_pc = "done"
    /\ t_frames = <<HandshakeFrame, KeyFrame>>
    /\ t_granted
    /\ t_elapsed > 0

\* C9: every TV command connects with exactly the stored token in its URL,
\* and with no token parameter while none is stored.
C9_StoredTokenInUrl ==
    (t_pc \in {"connecting", "handshake", "waiting", "sending", "done"} /\ t_attempts > 0) =>
        t_url = t_start_token

\* C10: a wake that fails because the TV did not answer in time raises with
\* the category of that timeout (handshake or authorization timeout).
C10_TimeoutCategory ==
    (t_op = "wake" /\ t_pc = "done" /\ t_cause = "recv_timeout") =>
        t_exc \in {"handshake_timeout", "authorization_timeout"}

\* Failed operations at the end of a history: those since the last success.
RECURSIVE TrailingFailures(_)
TrailingFailures(h) ==
    IF h = <<>> \/ h[Len(h)] = "ok" THEN 0
    ELSE 1 + TrailingFailures(SubSeq(h, 1, Len(h) - 1))

KeyFrameCount == Cardinality({i \in DOMAIN t_frames : t_frames[i] = KeyFrame})

\* C11: a wake that finds the TV "on" opens no WebSocket, sends no frame and
\* returns "TV is already on", a status no key-sending wake returns; a wake
\* that finds "standby" or an unknown state calls the key send exactly once,
\* and when it returns KEY_POWER went out exactly once.
C11_NoKeyWhenOn ==
    /\ (t_op = "wake" /\ t_power = "on") =>
          /\ ws_state = "none" /\ t_frames = <<>> /\ t_attempts = 0
          /\ t_pc = "done" /\ t_ret = "TV is already on" /\ t_exc = None
    /\ (t_op = "wake" /\ t_power \in PowerStates \ {"on"}) =>
          /\ t_attempts = 1
          /\ KeyFrameCount <= 1
          /\ (t_pc = "done" /\ t_exc = None) =>
                (KeyFrameCount = 1 /\ t_ret \notin {None, "TV is already on"})

\* C11: a wake has returned "TV is already on".
C11_Witness ==
    t_op = "wake" /\ t_pc = "done" /\ t_power = "on" /\ t_ret = "TV is already on"

\* C12: a failing power-state query does not fail the wake: the wake goes on
\* to send KEY_POWER, and ends without a key send only if the TV was on.
C12_InfoFailureFallsBack ==
    (t_op = "wake" /\ t_pc = "done") =>
        /\ t_cause # "get_info"
        /\ (t_attempts = 0 => t_power = "on")

\* The playback states an operation can return.
IsPlaybackState(v) == \E n \in DOMAIN PlaybackStates : PlaybackStates[n] = v

\* C13: from no access token and an empty cache, two get_current_track calls
\* one after the other, the second begun less than 5 s after the first
\* returned, send one token exchange and one playback-status request in
\* total, and the second returns the state the first returned.
C13_TwoReadsOneFetch ==
    (/\ OpsBegun = 2
     /\ r_hist[1].op = "status" /\ IsPlaybackState(r_hist[1].ret)
     /\ r_hist[2].op = "status" /\ r_hist[2].ret # None
     /\ r_hist[2].gap < 5) =>
        /\ r_hist[1].token_reqs + r_hist[2].token_reqs = 1
        /\ r_hist[1].api_reqs + r_hist[2].api_reqs = 1
        /\ r_hist[2].ret = r_hist[1].ret

\* C13: the second read came 4 s after the first and was served without a
\* request.
C13_Witness ==
    /\ OpsBegun = 2
    /\ r_hist[1].op = "status" /\ IsPlaybackState(r_hist[1].ret)
    /\ r_hist[2].op = "status" /\ r_hist[2].ret = r_hist[1].ret
    /\ r_hist[2].gap = 4
    /\ r_hist[2].api_reqs = 0

\* The status code of an exchange the token endpoint rejected.
HttpStatus(failure) ==
    CASE failure = "http_400" -> "400"
      [] failure = "http_401" -> "401"
      [] OTHER -> None

\* An operation answered from the cache: it never asks for a token.
ServedFromCache(r) == r.op = "status" /\ IsPlaybackState(r.ret) /\ r.api_reqs = 0

\* C15: an exchange the token endpoint rejects with an HTTP error ends the
\* operation with SpotifyAuthException carrying the status code; the step
\* stores no token (get_token() is absent before and after, the auth state
\* and the cache are as they were), and the next operation that asks for a
\* token posts the exchange again.
C15_RejectedExchange ==
    /\ [](\A i \in DOMAIN r_hist :
            HttpStatus(r_hist[i].failure) # None =>
              /\ r_hist[i].ret = "SpotifyAuthException"
              /\ r_hist[i].detail = HttpStatus(r_hist[i].failure)
              /\ (i < Len(r_hist) /\ r_hist[i + 1].ret # None) =>
                    (r_hist[i + 1].token_reqs = 1 \/ ServedFromCache(r_hist[i + 1])))
    /\ [][\A p \in MProcs :
            (m_pc[p] = "await_token" /\ m_pc'[p] = "done") =>
              /\ m_ret'[p] = "SpotifyAuthException"
              /\ UNCHANGED <<access_token, token_expires_at, refresh_token, cache>>
              /\ GetTokenResult(access_token, token_expires_at, now) = None
              /\ GetTokenResult(access_token', token_expires_at', now') = None
       ]_vars

\* C15: after an exchange rejected with 401 the next operation has posted the
\* exchange again.
C15_Witness ==
    /\ Len(r_hist) = 2
    /\ r_hist[1].failure = "http_401" /\ r_hist[1].detail = "401"
    /\ r_hist[2].token_reqs = 1

\* C16: a refresh token rotated by the token endpoint is written to the
\* configuration and is the credential of later exchanges, and the access
\* token of that response is stored.
C16_RotatedTokenPersisted ==
    \A i \in DOMAIN r_hist :
        r_hist[i].rotated # None =>
          /\ spotify_refresh_token = r_hist[i].rotated
          /\ access_token # None
          /\ \A j \in DOMAIN r_hist :
                (j > i /\ r_hist[j].cred # None) => r_hist[j].cred = r_hist[i].rotated

\* The operations of the music client: the status read and the state-mutating
\* commands.
MusicClientOps == {"status"} \cup Commands \cup PlaylistCommands

HasStep(step) == \E i \in DOMAIN w_steps : w_steps[i] = step

\* C17: wake_tv_and_play requests the transfer only after wake has returned;
\* when wake raises, the workflow ends with an exception, no token exchange
\* or transfer request is made, and the step changes nothing of the music
\* state, the auth state or the cache.
C17_WakeBeforeTransfer ==
    /\ [](w_op = WorkflowTransfer =>
            /\ HasStep("transfer") => SubSeq(w_steps, 1, 3) = <<"wake", "wake_ok", "transfer">>
            /\ w_pc = "wake" => SessionIdle
            /\ HasStep("wake_failed") =>
                  /\ w_pc = "done"
                  /\ w_ret \notin {None, TransferredMessage}
                  /\ ~HasStep("transfer")
                  /\ SessionIdle)
    /\ [][(w_op = WorkflowTransfer /\ w_pc = "wake" /\ t_exc # None /\ w_pc' # "wake") =>
              UNCHANGED <<authVars, cache, musicVars>>]_vars

\* C17: wake_tv_and_play has failed at the wake, with nothing transferred.
C17_Witness ==
    /\ w_op = WorkflowTransfer
    /\ w_pc = "done"
    /\ w_steps = <<"wake", "wake_failed">>
    /\ w_ret = "SpotifyException"

\* C18: the exception a workflow raises is the exception of the step that
\* failed, unchanged in kind.
C18_TypedErrorUnchanged ==
    (w_pc = "done" /\ w_cause # None) => w_ret = w_cause

\* C18 (as the code has it): the launch workflow re-raises the failed step's
\* exception unchanged; wake_tv_and_play raises SpotifyException for every
\* failing step, the step's exception being its cause.
C18_TypedErrorOrWrapped ==
    (w_pc = "done" /\ w_cause # None) =>
        /\ w_op = LaunchWorkflow => w_ret = w_cause
        /\ w_op = WorkflowTransfer => w_ret = "SpotifyException"

\* C18: the launch workflow has surfaced the TVConnectionException of its wake.
C18_Witness ==
    /\ w_op = LaunchWorkflow
    /\ w_pc = "done"
    /\ w_cause = "TVConnectionException"
    /\ w_ret = "TVConnectionException"

\* Line 830, the message of a completed launch workflow.
LaunchedMessage == "TV woken, Spotify launched, and playlist started"
\* The typed errors of the workflow's steps.
StepErrors == {"TVConnectionException", "SpotifyNotAuthenticatedException",
               "SpotifyAuthException", "SpotifyAPIException"}

\* C19: the launch workflow ends either because one of its steps failed, or
\* with its success message after wake, settle, launch, settle and play were
\* each performed once in that order.
C19_StepsInOrder ==
    (w_op = LaunchWorkflow /\ w_pc = "done") =>
        \/ w_cause \in StepErrors
        \/ /\ w_cause = None
           /\ w_ret = LaunchedMessage
           /\ w_steps = <<"wake", "wake_ok", "settle", "launch", "launch_ok", "settle", "play">>

\* The cache holds a playback state that has not expired.
LiveTrackEntry == cache[TrackKey].present /\ ~is_expired(cache[TrackKey], now)

\* C20: when a state-mutating music operation or wake_tv_and_play has
\* succeeded, no live playback-state entry is left in the cache, so the next
\* status read goes upstream.
C20_EveryCommandInvalidates ==
    /\ \A p \in MProcs :
          (m_pc[p] = "done" /\ m_ret[p] = "ok" /\ m_op[p] \in Commands \cup PlaylistCommands) =>
              ~LiveTrackEntry
    /\ (w_pc = "done" /\ w_ret = TransferredMessage) => ~LiveTrackEntry

\* C21: cached() does not hold the cache lock while fetch_func runs, so get,
\* set and clear of other callers (same key or another) can run while a fetch
\* is in flight; each store of a fetched value overwrites the entry, so after
\* two concurrent misses on one key the entry is the one the later set wrote.
C21_NoLockAcrossFetch ==
    /\ []((\E p \in Callers : c_pc[p] = "fetching") =>
            /\ c_lock = None
            /\ \A k \in Keys : ENABLED cache_get(k) /\ ENABLED cache_clear(k)
            /\ \A k \in Keys, v \in Values : ENABLED cache_set(k, v, CallerTTL(k)))
    /\ [][\A p \in Callers :
            (c_pc[p] = "fetching" /\ c_pc'[p] = "stored") =>
                /\ cache'[c_key[p]] = CacheEntry(c_ret'[p], now + c_ttl[p])
                /\ \A q \in Callers \ {p} : c_pc'[q] = c_pc[q] /\ c_ret'[q] = c_ret[q]
       ]_vars

\* C21: two callers missed on the same key and both fetched; both have stored,
\* with different values, and the entry is not the one the first of them wrote.
C21_Witness ==
    /\ c_pc["a"] = "stored" /\ c_pc["b"] = "stored"
    /\ c_key["a"] = c_key["b"]
    /\ c_ret["a"] # c_ret["b"]
    /\ cache[c_key["a"]].present
    /\ cache[c_key["a"]].value = c_ret["b"]
    /\ cache_last.op = "cached"
\* C22: a pending state issued at t0 is accepted by the callback only while
\* it is younger than 600 s - still accepted at t0 + 599 s, rejected as an
\* invalid state at t0 + 601 s - whether or not a login swept in between.
C22_StateExpires ==
    (o_last.op = "callback" /\ ~o_last.error /\ o_last.issued /\ o_last.prior = 0) =>
        /\ o_last.age >= OAUTH_STATE_TTL_SECONDS + 1 => o_last.result = InvalidState
        /\ o_last.age <= OAUTH_STATE_TTL_SECONDS - 1 => o_last.result # InvalidState

\* C23: a state passes the check of at most one callback and only if
\* auth_login issued it; every later callback with it, and any callback with a
\* missing or never-issued state, is rejected with 'Invalid state parameter'
\* and attempts no token exchange.
C23_StateSingleUse ==
    /\ \A s \in StateIds : o_accepted[s] <= 1 /\ (o_accepted[s] = 1 => s <= o_issued)
    /\ \A s \in StateIds : s \in o_exchanging => o_accepted[s] = 1 /\ ~StateKnown(oauth_states, s)
    /\ (o_last.op = "callback" /\ (~o_last.issued \/ o_last.prior > 0)) =>
          /\ o_last.result = InvalidState
          /\ ~o_last.exchange

\* C23, with the error parameter taken into account: a callback carrying an
\* error parameter is rejected with 'Spotify auth failed' whatever its state;
\* any other callback with a missing, never-issued or already accepted state
\* is rejected with 'Invalid state parameter'; neither attempts an exchange.
C23_StateSingleUseUnlessError ==
    /\ \A s \in StateIds : o_accepted[s] <= 1 /\ (o_accepted[s] = 1 => s <= o_issued)
    /\ \A s \in StateIds : s \in o_exchanging => o_accepted[s] = 1 /\ ~StateKnown(oauth_states, s)
    /\ (o_last.op = "callback" /\ (~o_last.issued \/ o_last.prior > 0)) =>
          /\ o_last.result = (IF o_last.error THEN AuthFailed ELSE InvalidState)
          /\ ~o_last.exchange
    /\ (o_last.op = "callback" /\ o_last.error) => o_last.result = AuthFailed /\ ~o_last.exchange

\* C23: a state was accepted once, and a later callback presenting it again
\* (with a code, without an error parameter) has been rejected.
C23_Witness ==
    /\ o_last.op = "callback"
    /\ ~o_last.error
    /\ o_last.issued
    /\ o_last.prior = 1
    /\ o_last.result = InvalidState
\* C24: with no set call since cleanup() - or since construction - get_token()
\* and get_refresh_token() of SpotifyAuthManager and get_tv_token() of
\* TVStateManager return absent, whatever set calls came before the cleanup.
C24_AbsentAfterCleanup ==
    /\ (auth_last.op = "get_token" /\ ~mgr_set.token) => auth_last.val = None
    /\ (auth_last.op = "get_refresh_token" /\ ~mgr_set.refresh) => auth_last.val = None
    /\ (tv_last.op = "get_tv_token" /\ ~mgr_set.tv) => tv_last.val = None
    /\ (auth_last.op = "cleanup") =>
          access_token = None /\ token_expires_at = 0 /\ refresh_token = None
    /\ (tv_last.op = "cleanup") => tv_token = None /\ tv_client_id = None

\* C24: tokens were set on both managers, both were cleaned up, and the reads
\* made since returned absent.
C24_Witness ==
    /\ auth_last.op = "get_refresh_token"
    /\ auth_last.val = None
    /\ tv_last.op = "get_tv_token"
    /\ tv_last.val = None
    /\ mgr_set.cleaned = {"token", "refresh", "tv"}
    /\ ~mgr_set.token /\ ~mgr_set.refresh /\ ~mgr_set.tv
C26_CompassCardinals ==
    wind_arrow # None =>
        /\ wind_arrow = directions[(RoundHalfEven(wind_deg, 45) % 8) + 1]
        /\ wind_deg = 0 => wind_arrow = "up"
        /\ wind_deg = 90 => wind_arrow = "right"
        /\ wind_deg = 180 => wind_arrow = "down"
        /\ wind_deg = 270 => wind_arrow = "left"
        /\ wind_deg = 360 => wind_arrow = wind_direction_compass(0)
\* The exceptions a transport command raises: from token acquisition (lines
\* 79-82, 138-165) and from the player request (302-318).
CommandFailures ==
    {"SpotifyNotAuthenticatedException", "SpotifyAuthException", "SpotifyAPIException"}

\* C27: a play / pause / next_track / previous_track that fails - in token
\* acquisition or in the player request - leaves the cached playback state and
\* its expiry as they were: no step of a command changes the cache except the
\* one that follows the provider's success acknowledgment.
C27_FailureLeavesCache ==
    [][\A p \in CommandProcs :
          /\ (m_pc[p] # "done" /\ m_pc'[p] = "done" /\ m_ret'[p] \in CommandFailures) =>
                cache' = cache
          /\ (m_pc'[p] # m_pc[p] /\ cache' # cache) =>
                (m_pc[p] = "await_resp" /\ m_pc'[p] = "done" /\ m_ret'[p] = "ok")
    ]_vars

\* C27: a command's player request has failed and the playback state cached
\* before is still there, not expired.
C27_Witness ==
    \E p \in CommandProcs :
        /\ m_pc[p] = "done"
        /\ m_op[p] \in Commands
        /\ m_ret[p] = "SpotifyAPIException"
        /\ LiveTrackEntry
\* C28: under every interleaving of a status read with a transport command,
\* once the command has returned successfully a get_current_track served from
\* the cache does not return a playback state the provider had before it
\* applied the command - also when a fetch begun before the command stores
\* its result after the command's invalidation.
C28_NoStaleStateAfterCommand ==
    [][\A p \in CommandProcs, q \in StatusProcs :
          (/\ m_pc[p] = "done" /\ m_ret[p] = "ok"
           /\ m_pc[q] = "idle" /\ m_pc'[q] = "done"
           /\ IsPlaybackState(m_ret'[q])) =>
                m_ret'[q] = PlaybackState(up_state)
    ]_vars
\* C29: music operations that concurrently find no valid token each make
\* their own exchange and each go on with the token of their own exchange; the
\* manager holds the token and the expiry of the exchange whose set_token ran
\* last, and at every moment the stored token and expiry are those of one and
\* the same set_token call.
C29_LastExchangeWins ==
    /\ [](IF x_last = NoGrant
            THEN access_token = None /\ token_expires_at = 0
            ELSE access_token = x_last.tok /\ token_expires_at = x_last.expires_at)
    /\ [][\A p \in MProcs :
            (m_pc[p] = "await_token" /\ m_pc'[p] = "await_api") =>
                /\ x_last'.proc = p
                /\ m_tok'[p] = x_last'.tok
                /\ \A q \in MProcs \ {p} : m_tok'[q] = m_tok[q]
       ]_vars

\* C29: two operations had their exchanges in flight together; both were
\* granted, with different tokens and lifetimes; each holds its own token and
\* the manager holds the token and the earlier expiry of the later one.
C29_Witness ==
    /\ x_last.raced
    /\ \E p, q \in MProcs :
          /\ x_last.proc = p
          /\ q # p
          /\ m_tok[p] = x_last.tok
          /\ m_tok[q] \in Tokens \ {x_last.tok}
          /\ access_token = m_tok[p]
          /\ token_expires_at = now + 2
\* C30 (as stated): after a failed probe every readiness check begun in the
\* next 60 s answers 503.
C30_UnhealthyAfterFailedProbe ==
    \A p \in Checkers :
        (h_pc[p] = "done" /\ h_ret[p].since_failed >= 0
                          /\ h_ret[p].since_failed < HEALTH_TTL_SECONDS)
            => h_ret[p].code = 503

\* C30 (amended): a readiness check begun less than 60 s after the latest
\* probe outcome was stored does not call the weather service and reports
\* that outcome, with 503 if it is a failure whatever the upstream does now;
\* a check calls the weather service only if no outcome was stored or the
\* latest one is at least 60 s old.
C30_ProbeCachedSixtySeconds ==
    \A p \in Checkers :
        h_pc[p] # "idle" =>
            LET r == h_ret[p]
                live == r.age >= 0 /\ r.age < HEALTH_TTL_SECONDS
            IN  /\ r.probed <=> ~live
                /\ live => /\ h_pc[p] = "done"
                           /\ r.weather = r.stored
                           /\ r.stored # HealthOk => r.code = 503
                           /\ r.code = 200 <=> (r.stored = HealthOk /\ is_authenticated)

\* C30: Spotify is authenticated and the upstream has recovered, yet a check
\* begun 59 s after a failed probe is answered 503 from the cache.
C30_Witness ==
    \E p \in Checkers :
        /\ h_pc[p] = "done"
        /\ is_authenticated
        /\ weather_up
        /\ h_ret[p] = [weather |-> HealthFailed, code |-> 503, probed |-> FALSE,
                       age |-> 59, stored |-> HealthFailed, since_failed |-> 59]
====
